---- MODULE Spec2Model ----
(***************************************************************************)
(* Record linkage of scanned documents to persons (lacklineage).           *)
(*                                                                         *)
(* Spec       the document / document_match tables under the per-document  *)
(*            bodies of the four automatic passes (scan_filenames,         *)
(*            scan_ocr, scan_vision, vision_loop) and the human            *)
(*            operations of the review server and of review_matches.       *)
(* SpecFiles  the same, with the highest proposal per file kept.           *)
(* SpecServer the review server at work next to a running pass.            *)
(* SpecBatch  the loops of the batches: what each iteration commits, what  *)
(*            a failed call does, and the stop flag of vision_loop.        *)
(* SpecNames  name_similarity on short strings.                            *)
(* SpecMatch  match_names_to_people on a person table, and the passes      *)
(*            writing what it returns.                                     *)
(* SpecDup    the duplicates section of generate_research.py, after edits  *)
(*            of the admin page.                                           *)
(* SpecBoost  boost_confidence run again and again (SpecBoostFair: the     *)
(*            runs go on).                                                 *)
(* SpecSoundex soundex on short names.                                     *)
(* SpecFrame  the passes, the duplicates report and boost_confidence over  *)
(*            one person table.                                            *)
(* SpecLink   a manual link of the review server next to the passes.       *)
(*                                                                         *)
(* Confidences are integers in units of 1/10000 (0.78 is 7800), so that    *)
(* round(conf, 3) is a real conversion: stored values are multiples of 10. *)
(***************************************************************************)
EXTENDS Integers, Sequences, FiniteSets, TLC

VARIABLES document, document_match, pending, last, proposed, run, person, call

vars == <<document, document_match, pending, last, proposed, run, person, call>>

tables == <<document, document_match, pending, last, proposed>>

----------------------------------------------------------------------------
(* Bounds and input domains *)

\* document ids and document_match ids are allocated up to these caps
MaxDocId == 2
MaxMatchId == 2

\* documents of one scan batch; images without vision_text that vision_loop
\* starts with
MaxDocs == 12
MaxImages == 6

\* length of the strings name_similarity is tried on
MaxNameLen == 3

\* persons of a table the duplicates are searched in, and edits made to it
MaxPersons == 2
MaxEdits == 2

\* runs of boost_confidence over the same rows
MaxRuns == 50

\* files of the scanned folder, files the admin page uploads, persons
Files == {"a"}
UploadFiles == {"u"}
People == {1}

\* final scores match_names_to_people can return (before the threshold)
CandidateConfs == {8004, 10000}

NULL == "NULL"
TEXT == "text"

----------------------------------------------------------------------------
(* Program constants *)

NAME_MATCH_THRESHOLD == 7800
FILENAME_MATCH_THRESHOLD == 8200
VISION_BOOST == 500
ONE == 10000
MAX_OCR_MATCHES_PER_DOC == 5
YEAR_BOOST_BIRTH == 1200
YEAR_BOOST_DEATH == 800

\* generate_research.py: abs(y1-y2) <= 5, duplicates[:100]
GATE_YEARS == 5
DUPLICATES_CAP == 100

\* boost_confidence: points of a verified and of an unverified match, the
\* cap of the bonus, the highest score
VERIFIED_BONUS == 5
UNVERIFIED_BONUS == 2
BONUS_CAP == 15
CONFIDENCE_MAX == 100

\* if i % N == 0: conn.commit(), or batch_analyzed % N in vision_loop
FILENAMES_COMMIT_EVERY == 200
OCR_COMMIT_EVERY == 50
VISION_COMMIT_EVERY == 10
LOOP_COMMIT_EVERY == 5

\* if batch_errors >= 3 and batch_analyzed == 0
LOOP_ERROR_LIMIT == 3

----------------------------------------------------------------------------
(* Helpers *)

SetMax(S) == CHOOSE x \in S : \A y \in S : y <= x

Min2(a, b) == IF a <= b THEN a ELSE b

\* the element of a set of one element: The({F(x) : x \in {e}}) is F(e) with
\* e evaluated once
The(S) == CHOOSE x \in S : TRUE

\* round(conf, 3): to the nearest multiple of 10, ties to even
Round3(c) ==
    LET q == c \div 10
        r == c % 10
    IN  IF r < 5 THEN q * 10
        ELSE IF r > 5 THEN (q + 1) * 10
        ELSE IF q % 2 = 0 THEN q * 10 ELSE (q + 1) * 10

\* the rowid sqlite gives an INTEGER PRIMARY KEY column left out of an INSERT
NextId(tbl) == IF tbl = {} THEN 1 ELSE SetMax({r.id : r \in tbl}) + 1

----------------------------------------------------------------------------
(* Strings: a str is the sequence of its characters; Str gives the string *)

LOWERCASE ==
    <<"a", "b", "c", "d", "e", "f", "g", "h", "i", "j", "k", "l", "m",
      "n", "o", "p", "q", "r", "s", "t", "u", "v", "w", "x", "y", "z">>

UPPERCASE ==
    <<"A", "B", "C", "D", "E", "F", "G", "H", "I", "J", "K", "L", "M",
      "N", "O", "P", "Q", "R", "S", "T", "U", "V", "W", "X", "Y", "Z">>

\* character c with the letters of `from` replaced by those of `to`
Translate(c, from, to) ==
    IF \E i \in 1..Len(from) : from[i] = c
    THEN to[CHOOSE i \in 1..Len(from) : from[i] = c] ELSE c

\* str.lower(), str.upper()
Lower(s) == [i \in 1..Len(s) |-> Translate(s[i], UPPERCASE, LOWERCASE)]

Upper(s) == [i \in 1..Len(s) |-> Translate(s[i], LOWERCASE, UPPERCASE)]

\* str.strip(): without its leading and trailing whitespace
Strip(s) ==
    LET inside == {i \in 1..Len(s) : s[i] # " "}
    IN  IF inside = {} THEN <<>>
        ELSE SubSeq(s, CHOOSE i \in inside : \A j \in inside : i <= j, SetMax(inside))

\* str.split(): the words between runs of whitespace
RECURSIVE Split(_)
Split(s) ==
    IF s = <<>> THEN <<>>
    ELSE IF Head(s) = " " THEN Split(Tail(s))
    ELSE LET stops == {i \in 1..Len(s) : s[i] = " "}
             end == IF stops = {} THEN Len(s) + 1
                    ELSE CHOOSE i \in stops : \A j \in stops : i <= j
         IN  <<SubSeq(s, 1, end - 1)>> \o Split(SubSeq(s, end, Len(s)))

\* f"{a} {b}"
Spaced(a, b) == a \o <<" ">> \o b

\* a in b, for strings
Contains(b, a) ==
    \E i \in 1..(Len(b) - Len(a) + 1) : SubSeq(b, i, i + Len(a) - 1) = a

RECURSIVE Str(_)
Str(s) == IF s = <<>> THEN "" ELSE Head(s) \o Str(Tail(s))

----------------------------------------------------------------------------
(* difflib.SequenceMatcher(None, a, b).ratio(), in units of 1/10000.       *)
(* Positions count from 1; a block is a[i..i+k-1] = b[j..j+k-1] inside     *)
(* a[alo..ahi-1] and b[blo..bhi-1].                                        *)

\* how far a[i..] and b[j..] agree inside a[..ahi-1] and b[..bhi-1]
RECURSIVE RunLength(_, _, _, _, _, _)
RunLength(a, b, i, ahi, j, bhi) ==
    IF i < ahi /\ j < bhi /\ a[i] = b[j] THEN 1 + RunLength(a, b, i + 1, ahi, j + 1, bhi)
    ELSE 0

\* the blocks that cannot be made longer, as <<i, j, k>>
MatchingBlocks(a, b, alo, ahi, blo, bhi) ==
    {<<ij[1], ij[2], RunLength(a, b, ij[1], ahi, ij[2], bhi)>> :
        ij \in {x \in (alo..(ahi - 1)) \X (blo..(bhi - 1)) : a[x[1]] = b[x[2]]}}

\* the longest block; of the longest, the one that starts earliest in a; of
\* those, the one that starts earliest in b. <<alo, blo, 0>> when none
find_longest_match(a, b, alo, ahi, blo, bhi) ==
    LET Longest(blocks) ==
            IF blocks = {} THEN <<alo, blo, 0>>
            ELSE CHOOSE t \in blocks : \A u \in blocks :
                     \/ u[3] < t[3]
                     \/ u[3] = t[3] /\ t[1] < u[1]
                     \/ u[3] = t[3] /\ t[1] = u[1] /\ t[2] <= u[2]
    IN  The({Longest(blocks) : blocks \in {MatchingBlocks(a, b, alo, ahi, blo, bhi)}})

\* get_matching_blocks: the longest block, then the same to its left and to
\* its right; the sum of the sizes of the blocks
RECURSIVE MatchedSize(_, _, _, _, _, _)
MatchedSize(a, b, alo, ahi, blo, bhi) ==
    LET Size(i, j, k) ==
            IF k = 0 THEN 0
            ELSE k + (IF alo < i /\ blo < j THEN MatchedSize(a, b, alo, i, blo, j) ELSE 0)
                   + (IF i + k < ahi /\ j + k < bhi
                      THEN The({MatchedSize(a, b, lo[1], ahi, lo[2], bhi) :
                                    lo \in {<<i + k, j + k>>}})
                      ELSE 0)
    IN  The({Size(m[1], m[2], m[3]) : m \in {find_longest_match(a, b, alo, ahi, blo, bhi)}})

\* _calculate_ratio(matches, len(a) + len(b))
ratio(a, b) ==
    IF Len(a) + Len(b) = 0 THEN ONE
    ELSE (2 * MatchedSize(a, b, 1, Len(a) + 1, 1, Len(b) + 1) * ONE) \div (Len(a) + Len(b))

\* name_similarity(name1, name2)
name_similarity(name1, name2) ==
    The({IF n[1] = n[2] THEN ONE ELSE ratio(n[1], n[2]) :
             n \in {<<Strip(Lower(name1)), Strip(Lower(name2))>>}})

----------------------------------------------------------------------------
(* The person table *)

DIGITS == <<"0", "1", "2", "3", "4", "5", "6", "7", "8", "9">>

\* None where a str is expected, and None where an int is
None == <<NULL>>
NoYear == -1

\* None and '' are false in a condition; None and 0 are
TruthyStr(s) == s # None /\ s # <<>>
TruthyInt(n) == n # NoYear /\ n # 0

\* re.search(r"(\d{4})", s) and int(m.group(1)): the first four digits in a
\* row; None when the date is None or '' or has none
yr(s) ==
    IF ~TruthyStr(s) THEN NoYear
    ELSE LET IsDigit(c) == \E d \in 1..10 : DIGITS[d] = c
             DigitValue(c) == (CHOOSE d \in 1..10 : DIGITS[d] = c) - 1
             starts == {i \in 1..(Len(s) - 3) : \A x \in 0..3 : IsDigit(s[i + x])}
         IN  IF starts = {} THEN NoYear
             ELSE LET i == CHOOSE x \in starts : \A y \in starts : x <= y
                  IN  DigitValue(s[i]) * 1000 + DigitValue(s[i + 1]) * 100
                      + DigitValue(s[i + 2]) * 10 + DigitValue(s[i + 3])

\* extract_year_from_str(date_str) of scan_documents.py
extract_year_from_str(date_str) == yr(date_str)

PersonRow(i, given, sur, birth, death, place, conf, tier) ==
    [id |-> i, given_name |-> given, surname |-> sur, birth_date |-> birth,
     death_date |-> death, birth_place |-> place, confidence |-> conf,
     confidence_tier |-> tier]

\* the person the passes match documents to
PersonTable ==
    {PersonRow(1, <<"A", "n", "n">>, <<"L", "e", "e">>, <<"1", "8", "5", "0">>,
               <<"1", "9", "0", "0">>, None, 50, "medium")}

\* call: the function or report that ran last, with its input and its result
NoCall == [op |-> "none"]

----------------------------------------------------------------------------
(* The document_match table: rows, SELECT, INSERT, INSERT OR REPLACE, UPDATE *)

Row(i, d, p, mt, c, s, v) ==
    [id |-> i, document_id |-> d, person_id |-> p, match_type |-> mt,
     confidence |-> c, snippet |-> s, verified |-> v]

\* SELECT ... FROM document_match WHERE document_id = ? AND person_id = ?
Existing(tbl, d, p) == {r \in tbl : r.document_id = d /\ r.person_id = p}

\* the table without its UNIQUE(document_id, person_id) constraint
NoUniqueConflict(tbl, d, p) == FALSE

\* UNIQUE(document_id, person_id): a row of tbl stands against a new (d, p)
UniqueConflict(tbl, d, p) == \E r \in tbl : r.document_id = d /\ r.person_id = p

\* INSERT INTO document_match: sqlite3.IntegrityError on a conflict
InsertMatch(tbl, d, p, mt, c, s, v) ==
    IF UniqueConflict(tbl, d, p)
    THEN [tbl |-> tbl, raised |-> TRUE]
    ELSE [tbl |-> tbl \cup {Row(NextId(tbl), d, p, mt, c, s, v)}, raised |-> FALSE]

\* INSERT OR REPLACE INTO document_match: the conflicting row is deleted, the
\* new row gets the next rowid
InsertOrReplaceMatch(tbl, d, p, mt, c, s, v) ==
    {r \in tbl : ~UniqueConflict({r}, d, p)} \cup {Row(NextId(tbl), d, p, mt, c, s, v)}

\* UPDATE document_match SET confidence, snippet, match_type WHERE document_id, person_id
UpdateMatch(tbl, d, p, mt, c, s) ==
    {IF r.document_id = d /\ r.person_id = p
     THEN [r EXCEPT !.confidence = c, !.snippet = s, !.match_type = mt]
     ELSE r : r \in tbl}

\* fetchone()[0] of the SELECT
ExistingConfidence(tbl, d, p) == (CHOOSE r \in Existing(tbl, d, p) : TRUE).confidence

----------------------------------------------------------------------------
(* The document table *)

DocRow(i, fp, ocr, vis) == [id |-> i, filepath |-> fp, ocr_text |-> ocr, vision_text |-> vis]

\* INSERT OR REPLACE INTO document (filename, filepath, doc_type, ocr_text, ...):
\* filepath is UNIQUE, so the row of the same file is deleted and the file is
\* inserted again under the next rowid, with ocr_text '' and vision_text NULL
InsertOrReplaceDocument(doc, fp) ==
    {r \in doc : r.filepath # fp} \cup {DocRow(NextId(doc), fp, "", NULL)}

DocIdOf(doc, fp) == (CHOOSE r \in doc : r.filepath = fp).id

SetOcrText(doc, d) == {IF r.id = d THEN [r EXCEPT !.ocr_text = TEXT] ELSE r : r \in doc}

SetVisionText(doc, d) == {IF r.id = d THEN [r EXCEPT !.vision_text = TEXT] ELSE r : r \in doc}

----------------------------------------------------------------------------
(* What a pass proposes for one document: the list match_names_to_people (or *)
(* match_vision_to_people) returns, each person at most once                 *)

Match(p, c, s) == [pid |-> p, conf |-> c, snippet |-> s]

\* the snippet names the text that matched and its score: it is written here
\* as the score the match was found with
Snippet(c) == ToString(c)

Matches(confs) == {Match(p, c, Snippet(c)) : p \in People, c \in confs}

\* matches.sort(key=score, reverse=True)
MatchLists(confs) ==
    {<<>>} \cup {<<m>> : m \in Matches(confs)}
    \cup {pr \in Matches(confs) \X Matches(confs) :
              pr[1].pid # pr[2].pid /\ pr[2].conf <= pr[1].conf}

\* vision_loop: one entry per person, in the order of the person table
LoopConfs == {9500, 8000}

LoopMatchLists ==
    {<<>>} \cup {<<m>> : m \in Matches(LoopConfs)}
    \cup {pr \in Matches(LoopConfs) \X Matches(LoopConfs) :
              pr[1].pid < pr[2].pid}

AtLeast(confs, threshold) == {c \in confs : c >= threshold}

\* parse_filename and match_names_to_people on the name of file fp: what the
\* names found in it score against the person table, a function of the file
NameCandidates(fp) ==
    IF fp = "a" THEN <<Match(1, 9500, Snippet(9500))>> ELSE <<>>

AboveThreshold(m) == m.conf >= FILENAME_MATCH_THRESHOLD

\* match_names_to_people(..., threshold=FILENAME_MATCH_THRESHOLD)
FilenameMatchList(fp) == SelectSeq(NameCandidates(fp), AboveThreshold)

\* the boost without its cap at 1.0
RECURSIVE VisionBoostedUncapped(_)
VisionBoostedUncapped(ms) ==
    IF ms = <<>> THEN <<>>
    ELSE <<[Head(ms) EXCEPT !.conf = Head(ms).conf + VISION_BOOST]>>
         \o VisionBoostedUncapped(Tail(ms))

\* conf = min(conf + 0.05, 1.0) of scan_vision, on every match of the list
RECURSIVE VisionBoosted(_)
VisionBoosted(ms) ==
    IF ms = <<>> THEN <<>>
    ELSE <<[Head(ms) EXCEPT !.conf = Min2(Head(ms).conf + VISION_BOOST, ONE)]>>
         \o VisionBoosted(Tail(ms))

----------------------------------------------------------------------------
(* match_names_to_people: the names found in a document against the people *)

\* load_people: the rows of person as a list, in the order of their ids
RECURSIVE load_people(_)
load_people(tbl) ==
    IF tbl = {} THEN <<>>
    ELSE LET p == CHOOSE x \in tbl : \A y \in tbl : x.id <= y.id
         IN  <<p>> \o load_people(tbl \ {p})

\* person['given_name'] or ''
OrEmpty(s) == IF s = None THEN <<>> ELSE s

full_name(p) == Strip(Spaced(OrEmpty(p.given_name), OrEmpty(p.surname)))

\* the surname-only match that counts sur_sim in full
RECURSIVE SurnameOnlyFull(_, _, _, _)
SurnameOnlyFull(surname, parts, best, extracted_name) ==
    IF parts = <<>> THEN best
    ELSE LET Next(sur_sim) ==
                 IF sur_sim > 9000
                 THEN [score |-> SetMax({best.score, sur_sim}), snippet |-> extracted_name]
                 ELSE best
         IN  The({SurnameOnlyFull(surname, Tail(parts), b, extracted_name) :
                      b \in {Next(name_similarity(surname, Head(parts)))}})

\* the surname-only match: for word in parts, sur_sim > 0.9 gives
\* max(best_score, sur_sim * 0.45) and the snippet
RECURSIVE SurnameOnly(_, _, _, _)
SurnameOnly(surname, parts, best, extracted_name) ==
    IF parts = <<>> THEN best
    ELSE LET Next(sur_sim) ==
                 IF sur_sim > 9000
                 THEN [score |-> SetMax({best.score, (sur_sim * 45) \div 100}),
                       snippet |-> extracted_name]
                 ELSE best
         IN  The({SurnameOnly(surname, Tail(parts), b, extracted_name) :
                      b \in {Next(name_similarity(surname, Head(parts)))}})

\* the body of `for extracted_name in names_found` for person p
ScoreName(p, best, extracted_name) ==
    LET given == OrEmpty(p.given_name)
        surname == OrEmpty(p.surname)
        Scored(parts, sim, given_sim, sur_sim) ==
            LET full == IF sim > best.score
                        THEN [score |-> sim, snippet |-> extracted_name] ELSE best
                combined == (given_sim * 4 + sur_sim * 6) \div 10
                component == IF /\ given # <<>>
                                /\ surname # <<>>
                                /\ Len(parts) >= 2
                                /\ combined > full.score
                                /\ given_sim > 7000
                                /\ sur_sim > 7000
                             THEN [score |-> combined, snippet |-> extracted_name] ELSE full
            IN  IF surname # <<>> /\ Len(surname) > 2 /\ component.score < 5000
                THEN The({SurnameOnly(surname, parts, c, extracted_name) : c \in {component}})
                ELSE component
    IN  The({The({Scored(parts, s[1], s[2], s[3]) :
                      s \in {<<name_similarity(full_name(p), extracted_name),
                               name_similarity(given, parts[1]),
                               name_similarity(surname, parts[Len(parts)])>>}}) :
                 parts \in {Split(extracted_name)}})

\* best_score and best_snippet of person p after the loop over names_found
RECURSIVE BestMatch(_, _, _)
BestMatch(p, best, names_found) ==
    IF names_found = <<>> THEN best
    ELSE The({BestMatch(p, b, Tail(names_found)) :
                  b \in {ScoreName(p, best, Head(names_found))}})

\* the year boost where the death year replaces the birth year's boost
YearBoostLast(p, years_in_doc) ==
    LET birth_year == extract_year_from_str(p.birth_date)
        death_year == extract_year_from_str(p.death_date)
    IN  IF years_in_doc = {} THEN 0
        ELSE IF TruthyInt(death_year) /\ death_year \in years_in_doc THEN YEAR_BOOST_DEATH
        ELSE IF TruthyInt(birth_year) /\ birth_year \in years_in_doc THEN YEAR_BOOST_BIRTH
        ELSE 0

\* year_boost: 0.12 for the birth year, 0.08 for the death year
year_boost(p, years_in_doc) ==
    LET birth_year == extract_year_from_str(p.birth_date)
        death_year == extract_year_from_str(p.death_date)
    IN  IF years_in_doc = {} THEN 0
        ELSE (IF TruthyInt(birth_year) /\ birth_year \in years_in_doc
              THEN YEAR_BOOST_BIRTH ELSE 0)
             + (IF TruthyInt(death_year) /\ death_year \in years_in_doc
                THEN YEAR_BOOST_DEATH ELSE 0)

\* the final score without min(.., 1.0)
FinalScoreUnclamped(best_score, boost) == best_score + boost

\* final_score = min(best_score + year_boost, 1.0)
final_score(best_score, boost) == Min2(best_score + boost, ONE)

\* the body of `for person in people` up to final_score: the final score of
\* person p and its snippet
PersonScore(p, names_found, years_in_doc) ==
    The({[score |-> final_score(best.score, year_boost(p, years_in_doc)),
          snippet |-> best.snippet] :
             best \in {BestMatch(p, [score |-> 0, snippet |-> <<>>], names_found)}})

\* the loop over people: the matches appended, each person once
RECURSIVE Accepted(_, _, _, _, _)
Accepted(names_found, people, years_in_doc, threshold, seen_pids) ==
    IF people = <<>> THEN <<>>
    ELSE LET p == Head(people)
             rest(seen) == Accepted(names_found, Tail(people), years_in_doc, threshold, seen)
             Body(final) ==
                 IF full_name(p) = <<>> \/ Len(full_name(p)) < 3 THEN rest(seen_pids)
                 ELSE IF final.score >= threshold /\ p.id \notin seen_pids
                      THEN <<Match(p.id, final.score, Str(final.snippet))>>
                           \o rest(seen_pids \cup {p.id})
                      ELSE rest(seen_pids)
         IN  The({Body(final) : final \in {PersonScore(p, names_found, years_in_doc)}})

\* the matches left in the order of the person table
Unsorted(ms) == ms

\* matches.sort(key=lambda x: x[1], reverse=True): stable, highest first
RECURSIVE SortByScore(_)
SortByScore(ms) ==
    IF ms = <<>> THEN <<>>
    ELSE LET m == ms[Len(ms)]
             Insert(sorted) ==
                 LET before == {i \in 1..Len(sorted) : sorted[i].conf >= m.conf}
                     n == IF before = {} THEN 0 ELSE SetMax(before)
                 IN  SubSeq(sorted, 1, n) \o <<m>> \o SubSeq(sorted, n + 1, Len(sorted))
         IN  The({Insert(sorted) : sorted \in {SortByScore(SubSeq(ms, 1, Len(ms) - 1))}})

match_names_to_people(names_found, people, years_in_doc, threshold) ==
    The({SubSeq(matches, 1, Min2(Len(matches), MAX_OCR_MATCHES_PER_DOC)) :
             matches \in {SortByScore(The({Accepted(names_found, rows, years_in_doc,
                                                     threshold, {}) :
                                               rows \in {people}}))}})

----------------------------------------------------------------------------
(* generate_research.py: potential duplicates by Soundex block *)

\* codes.get(c, '')
SoundexCode(c) ==
    CASE c \in {"B", "F", "P", "V"} -> "1"
      [] c \in {"C", "G", "J", "K", "Q", "S", "X", "Z"} -> "2"
      [] c \in {"D", "T"} -> "3"
      [] c = "L" -> "4"
      [] c \in {"M", "N"} -> "5"
      [] c = "R" -> "6"
      [] OTHER -> ""

\* for c in name[1:]: a code is appended when it differs from prev; a letter
\* without a code leaves prev as it is
RECURSIVE SoundexRest(_, _, _)
SoundexRest(name, result, prev) ==
    IF name = <<>> THEN result
    ELSE LET code == SoundexCode(Head(name))
         IN  SoundexRest(Tail(name),
                         IF code # "" /\ code # prev THEN Append(result, code) ELSE result,
                         IF code # "" THEN code ELSE prev)

soundex(name) ==
    LET up == Upper(name)
    IN  IF up = <<>> THEN <<>>
        ELSE SubSeq(SoundexRest(Tail(up), <<Head(up)>>, SoundexCode(Head(up)))
                        \o <<"0", "0", "0">>, 1, 4)

\* SELECT ... FROM person WHERE surname IS NOT NULL AND given_name IS NOT NULL
SelectPeople(tbl) == {p \in tbl : p.surname # None /\ p.given_name # None}

\* sx = soundex(p['surname']) + '_' + soundex(p['given_name'])
BlockKey(p) == soundex(p.surname) \o <<"_">> \o soundex(p.given_name)

\* sx_groups: the keys in the order they are first met, each with its members
\* in the order of people
RECURSIVE sx_groups(_, _)
sx_groups(people, keys) ==
    IF people = <<>> THEN <<>>
    ELSE LET sx == BlockKey(Head(people))
             SameBlock(p) == BlockKey(p) = sx
         IN  IF sx \in keys THEN sx_groups(Tail(people), keys)
             ELSE <<SelectSeq(people, SameBlock)>> \o sx_groups(Tail(people), keys \cup {sx})

\* for i, p1 in enumerate(members): for p2 in members[i+1:]
RECURSIVE BlockPairs(_)
BlockPairs(members) ==
    IF Len(members) < 2 THEN <<>>
    ELSE [j \in 1..(Len(members) - 1) |-> <<members[1], members[j + 1]>>]
         \o BlockPairs(Tail(members))

\* the pairs of all blocks, in the order the loops meet them
RECURSIVE AllPairs(_)
AllPairs(groups) ==
    IF groups = <<>> THEN <<>> ELSE BlockPairs(Head(groups)) \o AllPairs(Tail(groups))

\* the exact-match test without lower()
ExactMatchCased(p1, p2) == p1.surname = p2.surname /\ p1.given_name = p2.given_name

\* the exact-match test: surname and given name equal ignoring case
ExactMatch(p1, p2) ==
    Lower(p1.surname) = Lower(p2.surname) /\ Lower(p1.given_name) = Lower(p2.given_name)

Abs(n) == IF n < 0 THEN -n ELSE n

\* date_close = (y1 and y2 and abs(y1-y2) <= 5) or (not y1 or not y2)
date_close(y1, y2) ==
    \/ TruthyInt(y1) /\ TruthyInt(y2) /\ Abs(y1 - y2) <= GATE_YEARS
    \/ ~TruthyInt(y1) \/ ~TruthyInt(y2)

\* the score with `if` for `elif`: equal years count as close years too
DupScoreBoth(p1, p2) ==
    LET y1 == yr(p1.birth_date)
        y2 == yr(p2.birth_date)
        BirthPlace(p) == Lower(OrEmpty(p.birth_place))
    IN  (IF TruthyInt(y1) /\ TruthyInt(y2) /\ y1 = y2 THEN 3 ELSE 0)
        + (IF TruthyInt(y1) /\ TruthyInt(y2) /\ Abs(y1 - y2) <= 2 THEN 2 ELSE 0)
        + (IF soundex(p1.surname) = soundex(p2.surname) THEN 2 ELSE 0)
        + (IF soundex(p1.given_name) = soundex(p2.given_name) THEN 2 ELSE 0)
        + (IF /\ BirthPlace(p1) # <<>>
              /\ BirthPlace(p2) # <<>>
              /\ (Contains(BirthPlace(p2), BirthPlace(p1))
                  \/ Contains(BirthPlace(p1), BirthPlace(p2)))
           THEN 2 ELSE 0)

\* score of a pair; the places are (p['birth_place'] or '').lower()
DupScore(p1, p2) ==
    LET y1 == yr(p1.birth_date)
        y2 == yr(p2.birth_date)
        BirthPlace(p) == Lower(OrEmpty(p.birth_place))
    IN  (IF TruthyInt(y1) /\ TruthyInt(y2) /\ y1 = y2 THEN 3
         ELSE IF TruthyInt(y1) /\ TruthyInt(y2) /\ Abs(y1 - y2) <= 2 THEN 2
         ELSE 0)
        + (IF soundex(p1.surname) = soundex(p2.surname) THEN 2 ELSE 0)
        + (IF soundex(p1.given_name) = soundex(p2.given_name) THEN 2 ELSE 0)
        + (IF /\ BirthPlace(p1) # <<>>
              /\ BirthPlace(p2) # <<>>
              /\ (Contains(BirthPlace(p2), BirthPlace(p1))
                  \/ Contains(BirthPlace(p1), BirthPlace(p2)))
           THEN 2 ELSE 0)

\* the tests of the inner loop before seen_pairs: not an exact match, and
\* the birth years close
PassesGate(pair) ==
    /\ ~ExactMatch(pair[1], pair[2])
    /\ date_close(yr(pair[1].birth_date), yr(pair[2].birth_date))

\* the inner loop over the pairs: a pair that passes and whose key is not in
\* seen_pairs (no earlier pair of the same ids has passed) is appended
Candidates(pairs) ==
    LET numbered == [i \in 1..Len(pairs) |-> [pair |-> pairs[i], i |-> i]]
        key(pair) == {pair[1].id, pair[2].id}
        Appended(x) ==
            /\ PassesGate(x.pair)
            /\ ~\E j \in 1..(x.i - 1) : PassesGate(pairs[j]) /\ key(pairs[j]) = key(x.pair)
        kept == SelectSeq(numbered, Appended)
    IN  [k \in 1..Len(kept) |->
            [person1 |-> kept[k].pair[1].id, person2 |-> kept[k].pair[2].id,
             score |-> DupScore(kept[k].pair[1], kept[k].pair[2])]]

\* duplicates.sort(key=lambda x: -x['score']): stable, highest first; the
\* scores are sums of 3 or 2, 2, 2 and 2
RECURSIVE SortDuplicates(_, _)
SortDuplicates(ds, score) ==
    IF score < 0 THEN <<>>
    ELSE LET HasScore(d) == d.score = score
         IN  SelectSeq(ds, HasScore) \o SortDuplicates(ds, score - 1)

\* the duplicates section for the rows `people`, in the order fetchall gave
duplicates(people) ==
    LET sorted == SortDuplicates(Candidates(AllPairs(sx_groups(people, {}))), 9)
    IN  SubSeq(sorted, 1, Min2(Len(sorted), DUPLICATES_CAP))

----------------------------------------------------------------------------
(* The reconcile step of each pass *)

\* scan_filenames: unconditional INSERT OR REPLACE, verified = 0
RECURSIVE FilenameMatches(_, _, _)
FilenameMatches(tbl, d, ms) ==
    IF ms = <<>> THEN tbl
    ELSE FilenameMatches(
             InsertOrReplaceMatch(tbl, d, Head(ms).pid, "filename",
                                  Round3(Head(ms).conf), Head(ms).snippet, 0),
             d, Tail(ms))

\* the reconcile step with the comparison the other way round
ReconcileOneLower(tbl, d, m, mt) ==
    IF Existing(tbl, d, m.pid) # {}
    THEN IF m.conf < ExistingConfidence(tbl, d, m.pid)
         THEN UpdateMatch(tbl, d, m.pid, mt, Round3(m.conf), m.snippet)
         ELSE tbl
    ELSE InsertOrReplaceMatch(tbl, d, m.pid, mt, Round3(m.conf), m.snippet, 0)

\* the reconcile step as scan_filenames does it, with no SELECT
ReconcileOneReplace(tbl, d, m, mt) ==
    InsertOrReplaceMatch(tbl, d, m.pid, mt, Round3(m.conf), m.snippet, 0)

\* the reconcile step with an UPDATE that stores conf as proposed
ReconcileOneUnrounded(tbl, d, m, mt) ==
    IF Existing(tbl, d, m.pid) # {}
    THEN IF m.conf > ExistingConfidence(tbl, d, m.pid)
         THEN UpdateMatch(tbl, d, m.pid, mt, m.conf, m.snippet)
         ELSE tbl
    ELSE InsertOrReplaceMatch(tbl, d, m.pid, mt, Round3(m.conf), m.snippet, 0)

\* scan_ocr and scan_vision: SELECT, then UPDATE when conf > existing[0], or
\* INSERT OR REPLACE when there is no row
ReconcileOne(tbl, d, m, mt) ==
    IF Existing(tbl, d, m.pid) # {}
    THEN IF m.conf > ExistingConfidence(tbl, d, m.pid)
         THEN UpdateMatch(tbl, d, m.pid, mt, Round3(m.conf), m.snippet)
         ELSE tbl
    ELSE InsertOrReplaceMatch(tbl, d, m.pid, mt, Round3(m.conf), m.snippet, 0)

RECURSIVE ReconcileMatches(_, _, _, _)
ReconcileMatches(tbl, d, ms, mt) ==
    IF ms = <<>> THEN tbl
    ELSE ReconcileMatches(ReconcileOne(tbl, d, Head(ms), mt), d, Tail(ms), mt)

\* the plain INSERT with no SELECT before it
LoopInsertOnly(tbl, d, m) ==
    InsertMatch(tbl, d, m.pid, "vision_auto", Round3(m.conf), m.snippet, 0)

\* vision_loop: SELECT, then UPDATE when conf > existing[0], or a plain INSERT
LoopReconcileOne(tbl, d, m) ==
    IF Existing(tbl, d, m.pid) # {}
    THEN [tbl |-> IF m.conf > ExistingConfidence(tbl, d, m.pid)
                  THEN UpdateMatch(tbl, d, m.pid, "vision_auto", Round3(m.conf), m.snippet)
                  ELSE tbl,
          raised |-> FALSE]
    ELSE InsertMatch(tbl, d, m.pid, "vision_auto", Round3(m.conf), m.snippet, 0)

\* the for loop over matches; an IntegrityError leaves the loop
RECURSIVE LoopMatches(_, _, _)
LoopMatches(tbl, d, ms) ==
    IF ms = <<>> THEN [tbl |-> tbl, raised |-> FALSE]
    ELSE LET one == LoopReconcileOne(tbl, d, Head(ms))
         IN  IF one.raised THEN one ELSE LoopMatches(one.tbl, d, Tail(ms))

----------------------------------------------------------------------------
(* State *)

\* last: the operation that wrote last, with the matches it proposed; again
\* says that the operation before it was the same one with the same input.
\* proposed: for each (file, person), the highest confidence an automatic
\* pass has proposed so far, as stored (rounded); -1 once a human operation
\* has set or removed the pair's row. last is kept in the behaviours that
\* start with it on (Init), proposed in those that start with it a function
\* on Pairs (InitFiles); otherwise they are left as they are.
Last(op, d, arg, ms, raised, again) ==
    [op |-> op, doc |-> d, arg |-> arg, ms |-> ms, raised |-> raised, again |-> again]

Record(op, d, arg, ms, raised) ==
    last' = IF last.op = "off" THEN last
            ELSE Last(op, d, arg, ms, raised,
                      last.op = op /\ last.doc = d /\ last.arg = arg /\ last.ms = ms)

Pairs == (Files \cup UploadFiles) \X People

HighestConf(ms, p) ==
    SetMax({0} \cup {Round3(ms[i].conf) : i \in {j \in 1..Len(ms) : ms[j].pid = p}})

\* an automatic pass has proposed ms for the file fp
Propose(fp, ms) ==
    proposed' = IF DOMAIN proposed = {} THEN proposed
                ELSE [k \in Pairs |->
                         IF k[1] # fp \/ proposed[k] = -1 THEN proposed[k]
                         ELSE SetMax({proposed[k], HighestConf(ms, k[2])})]

\* a human operation has set or removed the rows of the pairs S
Touch(S) ==
    proposed' = IF DOMAIN proposed = {} THEN proposed
                ELSE [k \in Pairs |-> IF k \in S THEN -1 ELSE proposed[k]]

\* the (file, person) pairs of the rows with the ids in ids
PairsOfRows(ids) ==
    {k \in Pairs : \E r \in document_match, d \in document :
         r.id \in ids /\ d.id = r.document_id /\ d.filepath = k[1] /\ r.person_id = k[2]}

\* pending: the api_add_match request between its SELECT and its write
NoRequest == [doc |-> 0, pid |-> 0, existing |-> 0]

\* run: the batch at work. pass, pc: which loop and where in it; n, i: the
\* documents of the batch and how many iterations have begun; outcome: what
\* the last iteration met; uncommitted: the documents whose writes sit in
\* the open transaction; batch_analyzed, batch_errors, stop_requested: the
\* variables of vision_loop; remaining: the images left without
\* vision_text; unexported: the images stored since the last
\* export_and_push; failed_in_a_row: the vision calls of the batch that have
\* failed since the last one that did not; ended: why the for loop was left;
\* stop_at: where the
\* signal arrived; started_after_stop: a vision call was started with the
\* flag set; exported_after_stop: export_and_push has run since the signal
NoRun ==
    [pass |-> "none", pc |-> "idle", n |-> 0, i |-> 0, outcome |-> "none",
     uncommitted |-> 0, batch_analyzed |-> 0, batch_errors |-> 0,
     stop_requested |-> FALSE, remaining |-> 0, unexported |-> 0,
     ended |-> "", stop_at |-> "", started_after_stop |-> FALSE,
     exported_after_stop |-> FALSE, failed_in_a_row |-> 0]

Init ==
    /\ document = {}
    /\ document_match = {}
    /\ pending = NoRequest
    /\ last = Last("init", 0, "", <<>>, FALSE, FALSE)
    /\ proposed = <<>>
    /\ run = NoRun
    /\ person = PersonTable
    /\ call = NoCall

----------------------------------------------------------------------------
(* Automatic passes: the loop body for one file or document *)

\* scan_filenames, one file of the folder that is not skipped
scan_filenames(fp, rescan, ms) ==
    /\ rescan \/ ~\E r \in document : r.filepath = fp
    /\ NextId(document) <= MaxDocId
    /\ NextId(document_match) + Len(ms) - 1 <= MaxMatchId
    /\ document' = InsertOrReplaceDocument(document, fp)
    /\ document_match' = FilenameMatches(document_match, DocIdOf(document', fp), ms)
    /\ Record("scan_filenames", DocIdOf(document', fp), "", ms, FALSE)
    /\ Propose(fp, ms)
    /\ UNCHANGED <<pending, run, person, call>>

\* scan_ocr, one selected document. hasText = FALSE: the file is missing or a
\* .doc, ocr_image raised, or it returned '': nothing is written
scan_ocr(doc, rescan, hasText, ms) ==
    /\ rescan \/ doc.ocr_text \in {"", NULL}
    /\ hasText \/ ms = <<>>
    /\ NextId(document_match) + Len(ms) - 1 <= MaxMatchId
    /\ IF hasText
       THEN /\ document' = SetOcrText(document, doc.id)
            /\ document_match' = ReconcileMatches(document_match, doc.id, ms, "ocr_auto")
            /\ Record("scan_ocr", doc.id, "", ms, FALSE)
            /\ Propose(doc.filepath, ms)
       ELSE UNCHANGED <<document, document_match, last, proposed>>
    /\ UNCHANGED <<pending, run, person, call>>

\* scan_vision, one selected document
scan_vision(doc, rescan, hasText, ms) ==
    /\ rescan \/ doc.vision_text \in {"", NULL}
    /\ hasText \/ ms = <<>>
    /\ NextId(document_match) + Len(ms) - 1 <= MaxMatchId
    /\ IF hasText
       THEN /\ document' = SetVisionText(document, doc.id)
            /\ document_match' =
                   ReconcileMatches(document_match, doc.id, VisionBoosted(ms), "vision_auto")
            /\ Record("scan_vision", doc.id, "", VisionBoosted(ms), FALSE)
            /\ Propose(doc.filepath, VisionBoosted(ms))
       ELSE UNCHANGED <<document, document_match, last, proposed>>
    /\ UNCHANGED <<pending, run, person, call>>

\* vision_loop.main, one document of the batch; an IntegrityError is not
\* caught: the process ends and the iteration's writes are rolled back
vision_loop(doc, hasText, ms) ==
    /\ doc.vision_text \in {"", NULL}
    /\ hasText \/ ms = <<>>
    /\ NextId(document_match) + Len(ms) - 1 <= MaxMatchId
    /\ IF hasText
       THEN LET res == LoopMatches(document_match, doc.id, ms)
            IN  /\ document' = IF res.raised THEN document
                               ELSE SetVisionText(document, doc.id)
                /\ document_match' = IF res.raised THEN document_match ELSE res.tbl
                /\ Record("vision_loop", doc.id, "", ms, res.raised)
                /\ Propose(doc.filepath, IF res.raised THEN <<>> ELSE ms)
       ELSE UNCHANGED <<document, document_match, last, proposed>>
    /\ UNCHANGED <<pending, run, person, call>>

----------------------------------------------------------------------------
(* Human operations: the review server and review_matches *)

\* api_add_match: what the SELECT returns for (d, p)
AddMatchSelect(tbl, d, p) ==
    [doc |-> d, pid |-> p,
     existing |-> IF Existing(tbl, d, p) = {} THEN 0
                  ELSE (CHOOSE r \in Existing(tbl, d, p) : TRUE).id]

\* api_add_match: UPDATE ... WHERE id = existing, or the plain INSERT
AddMatchWrite(tbl, req) ==
    IF req.existing # 0
    THEN [tbl |-> {IF r.id = req.existing
                   THEN [r EXCEPT !.verified = 1, !.match_type = "manual",
                                  !.confidence = ONE]
                   ELSE r : r \in tbl},
          raised |-> FALSE]
    ELSE InsertMatch(tbl, req.doc, req.pid, "manual", ONE, "Manual link", 1)

\* api_add_match, the whole handler with no other writer at work
api_add_match(d, p) ==
    /\ pending = NoRequest
    /\ NextId(document_match) <= MaxMatchId
    /\ LET res == AddMatchWrite(document_match, AddMatchSelect(document_match, d, p))
       IN  /\ document_match' = res.tbl
           /\ Record("api_add_match", d, "", <<Match(p, ONE, "Manual link")>>, res.raised)
    /\ Touch({k \in Pairs : k[2] = p /\ \E r \in document : r.id = d /\ r.filepath = k[1]})
    /\ UNCHANGED <<document, pending, run, person, call>>

\* api_add_match next to a running pass: up to the SELECT ...
api_add_match_select(d, p) ==
    /\ pending = NoRequest
    /\ pending' = AddMatchSelect(document_match, d, p)
    /\ UNCHANGED <<document, document_match, last, proposed, run, person, call>>

\* ... and the UPDATE or INSERT with the commit
api_add_match_write ==
    /\ pending # NoRequest
    /\ NextId(document_match) <= MaxMatchId
    /\ LET res == AddMatchWrite(document_match, pending)
       IN  /\ document_match' = res.tbl
           /\ Record("api_add_match", pending.doc, "",
                     <<Match(pending.pid, ONE, "Manual link")>>, res.raised)
    /\ Touch({k \in Pairs : k[2] = pending.pid
                   /\ \E r \in document : r.id = pending.doc /\ r.filepath = k[1]})
    /\ pending' = NoRequest
    /\ UNCHANGED <<document, run, person, call>>

\* api_admin_upload of a new file for person p
api_admin_upload(p, fp) ==
    /\ ~\E r \in document : r.filepath = fp
    /\ NextId(document) <= MaxDocId
    /\ NextId(document_match) <= MaxMatchId
    /\ document' = document \cup {DocRow(NextId(document), fp, NULL, NULL)}
    /\ LET res == InsertMatch(document_match, NextId(document), p,
                              "manual", ONE, "Uploaded by Dad", 1)
       IN  /\ document_match' = res.tbl
           /\ Record("api_admin_upload", NextId(document), "",
                     <<Match(p, ONE, "Uploaded by Dad")>>, res.raised)
    /\ Touch({<<fp, p>>})
    /\ UNCHANGED <<pending, run, person, call>>

\* api_verify_match with action "verify" or "reject"
api_verify_match(match_id, action) ==
    /\ \E r \in document_match : r.id = match_id
    /\ document_match' =
           IF action = "verify"
           THEN {IF r.id = match_id THEN [r EXCEPT !.verified = 1] ELSE r : r \in document_match}
           ELSE {r \in document_match : r.id # match_id}
    /\ Record("api_verify_match", 0, action, <<>>, FALSE)
    /\ Touch(IF action = "reject" THEN PairsOfRows({match_id}) ELSE {})
    /\ UNCHANGED <<document, pending, run, person, call>>

\* the rows review_matches lists: unverified, joined with document and person
Unverified ==
    {r \in document_match :
        /\ r.verified = 0
        /\ \E d \in document : d.id = r.document_id
        /\ r.person_id \in People}

\* review_matches: one session, ans[id] the answer given for each listed row
\* ("q" is "s" for that row and all later ones)
review_matches(ans) ==
    /\ Unverified # {}
    /\ document_match' =
           {IF r \in Unverified /\ ans[r.id] = "y" THEN [r EXCEPT !.verified = 1] ELSE r :
                r \in {x \in document_match : ~(x \in Unverified /\ ans[x.id] = "n")}}
    /\ Record("review_matches", 0, "", <<>>, FALSE)
    /\ Touch(PairsOfRows({r.id : r \in {x \in Unverified : ans[x.id] = "n"}}))
    /\ UNCHANGED <<document, pending, run, person, call>>

----------------------------------------------------------------------------
(* Spec: the passes and the human operations one after another *)

Passes ==
    \/ \E fp \in Files, rescan \in BOOLEAN :
            scan_filenames(fp, rescan, FilenameMatchList(fp))
    \/ \E doc \in document, rescan \in BOOLEAN, hasText \in BOOLEAN,
          ms \in MatchLists(AtLeast(CandidateConfs, NAME_MATCH_THRESHOLD)) :
            scan_ocr(doc, rescan, hasText, ms)
    \/ \E doc \in document, rescan \in BOOLEAN, hasText \in BOOLEAN,
          ms \in MatchLists(AtLeast(CandidateConfs, NAME_MATCH_THRESHOLD)) :
            scan_vision(doc, rescan, hasText, ms)
    \/ \E doc \in document, hasText \in BOOLEAN, ms \in LoopMatchLists :
            vision_loop(doc, hasText, ms)

Review ==
    \/ \E r \in document_match, action \in {"verify", "reject"} :
            api_verify_match(r.id, action)
    \/ \E ans \in [{r.id : r \in Unverified} -> {"y", "n", "s"}] : review_matches(ans)

Next ==
    \/ Passes
    \/ Review
    \/ \E doc \in document, p \in People : api_add_match(doc.id, p)

Spec == Init /\ [][Next]_vars

----------------------------------------------------------------------------
(* SpecFiles: the same operations and the uploads of the admin page, with *)
(* proposed kept instead of last                                         *)

InitFiles ==
    /\ document = {}
    /\ document_match = {}
    /\ pending = NoRequest
    /\ last = Last("off", 0, "", <<>>, FALSE, FALSE)
    /\ proposed = [k \in Pairs |-> 0]
    /\ run = NoRun
    /\ person = PersonTable
    /\ call = NoCall

NextFiles ==
    \/ Next
    \/ \E p \in People, fp \in UploadFiles : api_admin_upload(p, fp)

SpecFiles == InitFiles /\ [][NextFiles]_vars

----------------------------------------------------------------------------
(* SpecServer: manual links and uploads of the review server next to a     *)
(* running pass, with api_add_match split at its SELECT; verifications and *)
(* rejections are those of review_matches                                  *)

InitServer ==
    /\ document = {}
    /\ document_match = {}
    /\ pending = NoRequest
    /\ last = Last("off", 0, "", <<>>, FALSE, FALSE)
    /\ proposed = <<>>
    /\ run = NoRun
    /\ person = PersonTable
    /\ call = NoCall

NextServer ==
    \/ Passes
    \/ \E ans \in [{r.id : r \in Unverified} -> {"y", "n", "s"}] : review_matches(ans)
    \/ \E doc \in document, p \in People : api_add_match_select(doc.id, p)
    \/ api_add_match_write
    \/ \E p \in People, fp \in UploadFiles : api_admin_upload(p, fp)

SpecServer == InitServer /\ [][NextServer]_vars

\* the tables before any scan, or with a document whose file name matched no
\* person
InitLink ==
    /\ document \in {{}, {DocRow(1, "b", "", NULL)}}
    /\ document_match = {}
    /\ pending = NoRequest
    /\ last = Last("off", 0, "", <<>>, FALSE, FALSE)
    /\ proposed = <<>>
    /\ run = NoRun
    /\ person = PersonTable
    /\ call = NoCall

\* a manual link of the review server next to the passes alone
NextLink ==
    \/ Passes
    \/ \E doc \in document, p \in People : api_add_match_select(doc.id, p)
    \/ api_add_match_write

SpecLink == InitLink /\ [][NextLink]_vars

----------------------------------------------------------------------------
(* SpecBatch: the loops of scan_filenames, scan_ocr and scan_vision over the *)
(* documents of a batch, and main of vision_loop with its signal handler.    *)
(* The writes of a document are counted, not spelled out.                    *)

ScanPasses == {"scan_filenames", "scan_ocr", "scan_vision"}

CommitEvery(pass) ==
    CASE pass = "scan_filenames" -> FILENAMES_COMMIT_EVERY
      [] pass = "scan_ocr" -> OCR_COMMIT_EVERY
      [] pass = "scan_vision" -> VISION_COMMIT_EVERY
      [] OTHER -> LOOP_COMMIT_EVERY

\* what an iteration can meet: a file that is skipped (known already,
\* missing, of a type the pass leaves out), a call that raises, a call that
\* returns no text, a document that is written
Outcomes(pass) ==
    IF pass = "scan_filenames" THEN {"skip", "ok"} ELSE {"skip", "fail", "empty", "ok"}

InitBatch ==
    /\ document = {}
    /\ document_match = {}
    /\ pending = NoRequest
    /\ last = Last("off", 0, "", <<>>, FALSE, FALSE)
    /\ proposed = <<>>
    /\ run = NoRun
    /\ person = PersonTable
    /\ call = NoCall

\* a scan pass selects n documents
start_scan(pass, n) ==
    /\ run.pc = "idle"
    /\ run' = [run EXCEPT !.pass = pass, !.pc = "loop", !.n = n]
    /\ UNCHANGED <<tables, person, call>>

\* a handler that gives up the batch on the first exception
ScanFailedAbort(r) == [r EXCEPT !.outcome = "fail", !.pc = "done"]

\* except Exception: errors += 1; continue
ScanFailed(r) == [r EXCEPT !.outcome = "fail", !.pc = "loop"]

\* the body of the for loop up to the commit test. continue goes back to the
\* head of the loop, past the test
scan_iteration(outcome) ==
    /\ run.pass \in ScanPasses
    /\ run.pc = "loop"
    /\ run.i < run.n
    /\ outcome \in Outcomes(run.pass)
    /\ LET r == [run EXCEPT !.i = @ + 1]
       IN  run' = CASE outcome = "fail" -> ScanFailed(r)
                    [] outcome = "skip" -> [r EXCEPT !.outcome = "skip", !.pc = "loop"]
                    [] outcome = "empty" ->
                           [r EXCEPT !.outcome = "empty",
                                     !.pc = IF r.pass = "scan_vision" THEN "loop" ELSE "commit"]
                    [] OTHER ->
                           [r EXCEPT !.outcome = "ok", !.uncommitted = @ + 1, !.pc = "commit"]
    /\ UNCHANGED <<tables, person, call>>

\* if i % N == 0: conn.commit()
scan_commit ==
    /\ run.pass \in ScanPasses
    /\ run.pc = "commit"
    /\ run' = [run EXCEPT !.uncommitted = IF run.i % CommitEvery(run.pass) = 0 THEN 0 ELSE @,
                          !.pc = "loop"]
    /\ UNCHANGED <<tables, person, call>>

\* conn.commit() after the loop
scan_end ==
    /\ run.pass \in ScanPasses
    /\ run.pc = "loop"
    /\ run.i = run.n
    /\ run' = [run EXCEPT !.uncommitted = 0, !.ended = "all", !.pc = "done"]
    /\ UNCHANGED <<tables, person, call>>

\* vision_loop is started with remaining images to analyze
start_loop(remaining) ==
    /\ run.pc = "idle"
    /\ run' = [run EXCEPT !.pass = "vision_loop", !.pc = "while", !.remaining = remaining]
    /\ UNCHANGED <<tables, person, call>>

\* handle_signal
handle_signal ==
    /\ run.pass = "vision_loop"
    /\ run.pc \notin {"done", "returned"}
    /\ ~run.stop_requested
    /\ run' = [run EXCEPT !.stop_requested = TRUE, !.stop_at = run.pc,
                          !.exported_after_stop = FALSE]
    /\ UNCHANGED <<tables, person, call>>

\* while not stop_requested: select the images; none left: export_and_push
\* and break
loop_while ==
    /\ run.pass = "vision_loop"
    /\ run.pc = "while"
    /\ run' = IF run.stop_requested THEN [run EXCEPT !.pc = "done"]
              ELSE IF run.remaining = 0
                   THEN [run EXCEPT !.unexported = 0, !.pc = "done"]
                   ELSE [run EXCEPT !.n = run.remaining, !.i = 0, !.batch_analyzed = 0,
                                    !.batch_errors = 0, !.outcome = "none", !.ended = "",
                                    !.failed_in_a_row = 0, !.pc = "for"]
    /\ UNCHANGED <<tables, person, call>>

\* if stop_requested: break
StopBreak(r) == r.stop_requested

\* the head of the for loop: the images are used up, the flag is set, or the
\* batch's minutes are over (time_up); otherwise the next vision call starts
loop_for(time_up) ==
    /\ run.pass = "vision_loop"
    /\ run.pc = "for"
    /\ run' = IF run.i = run.n THEN [run EXCEPT !.ended = "all", !.pc = "batch_end"]
              ELSE IF StopBreak(run) THEN [run EXCEPT !.ended = "stop", !.pc = "batch_end"]
              ELSE IF time_up THEN [run EXCEPT !.ended = "time", !.pc = "batch_end"]
              ELSE [run EXCEPT !.i = @ + 1, !.pc = "call",
                               !.started_after_stop = @ \/ run.stop_requested]
    /\ UNCHANGED <<tables, person, call>>

\* except Exception: batch_errors += 1; at the limit with nothing analyzed,
\* Ollama is restarted: restarted, the count starts again; not restarted,
\* commit, close and return
LoopFailed(r, restarted) ==
    LET e == r.batch_errors + 1
        f == [r EXCEPT !.outcome = "fail", !.failed_in_a_row = @ + 1]
    IN  IF e >= LOOP_ERROR_LIMIT /\ r.batch_analyzed = 0
        THEN IF restarted
             THEN [f EXCEPT !.batch_errors = 0, !.pc = "for"]
             ELSE [f EXCEPT !.batch_errors = e, !.uncommitted = 0,
                            !.ended = "restart", !.pc = "returned"]
        ELSE [f EXCEPT !.batch_errors = e, !.pc = "for"]

\* the vision call of the image in flight comes back
loop_call(outcome, restarted) ==
    /\ run.pass = "vision_loop"
    /\ run.pc = "call"
    /\ run' = CASE outcome = "fail" -> LoopFailed(run, restarted)
                [] outcome = "empty" ->
                       [run EXCEPT !.outcome = "empty", !.failed_in_a_row = 0, !.pc = "for"]
                [] OTHER ->
                       [run EXCEPT !.outcome = "ok", !.batch_analyzed = @ + 1,
                                   !.failed_in_a_row = 0,
                                   !.uncommitted = @ + 1, !.unexported = @ + 1,
                                   !.remaining = @ - 1, !.pc = "commit"]
    /\ UNCHANGED <<tables, person, call>>

\* if batch_analyzed % 5 == 0: conn.commit()
loop_commit ==
    /\ run.pass = "vision_loop"
    /\ run.pc = "commit"
    /\ run' = [run EXCEPT !.uncommitted = IF run.batch_analyzed % LOOP_COMMIT_EVERY = 0
                                          THEN 0 ELSE @,
                          !.pc = "for"]
    /\ UNCHANGED <<tables, person, call>>

\* End of batch: conn.commit(); conn.close()
loop_batch_end ==
    /\ run.pass = "vision_loop"
    /\ run.pc = "batch_end"
    /\ run' = [run EXCEPT !.uncommitted = 0, !.pc = "export"]
    /\ UNCHANGED <<tables, person, call>>

\* export_and_push(batch_analyzed, batch_matches)
export_and_push ==
    /\ run.pass = "vision_loop"
    /\ run.pc = "export"
    /\ run' = [run EXCEPT !.unexported = 0, !.exported_after_stop = run.stop_requested,
                          !.pc = "exported"]
    /\ UNCHANGED <<tables, person, call>>

\* the end of a cycle without `if batch_analyzed == 0: break`
LoopAfterExportNoBreak ==
    /\ run.pass = "vision_loop"
    /\ run.pc = "exported"
    /\ run' = [run EXCEPT !.pc = IF run.stop_requested THEN "done" ELSE "while"]
    /\ UNCHANGED <<tables, person, call>>

\* if stop_requested: break; if batch_analyzed == 0: break
loop_after_export ==
    /\ run.pass = "vision_loop"
    /\ run.pc = "exported"
    /\ run' = [run EXCEPT !.pc = IF run.stop_requested \/ run.batch_analyzed = 0
                                 THEN "done" ELSE "while"]
    /\ UNCHANGED <<tables, person, call>>

\* the steps of the program
Program ==
    \/ \E outcome \in {"skip", "fail", "empty", "ok"} : scan_iteration(outcome)
    \/ scan_commit
    \/ scan_end
    \/ loop_while
    \/ \E time_up \in BOOLEAN : loop_for(time_up)
    \/ \E outcome \in {"fail", "empty", "ok"}, restarted \in BOOLEAN : loop_call(outcome, restarted)
    \/ loop_commit
    \/ loop_batch_end
    \/ export_and_push
    \/ loop_after_export

NextBatch ==
    \/ \E pass \in ScanPasses, n \in 1..MaxDocs : start_scan(pass, n)
    \/ \E remaining \in 0..MaxImages : start_loop(remaining)
    \/ handle_signal
    \/ Program

\* every call the loops wait for comes back (the vision call has a timeout),
\* so a step of the program that can be taken is taken
SpecBatch == InitBatch /\ [][NextBatch]_vars /\ WF_vars(Program)

----------------------------------------------------------------------------
(* SpecNames: name_similarity on a pair of strings *)

\* the strings of up to MaxNameLen of the characters a, b, C and the space
NameStrings == UNION {[1..k -> {"a", "b", "C", " "}] : k \in 0..MaxNameLen}

InitNames ==
    /\ document = {}
    /\ document_match = {}
    /\ pending = NoRequest
    /\ last = Last("off", 0, "", <<>>, FALSE, FALSE)
    /\ proposed = <<>>
    /\ run = NoRun
    /\ person = PersonTable
    /\ call \in {[op |-> "name_similarity", name1 |-> a, name2 |-> b,
                  returned |-> FALSE, result |-> 0] : a, b \in NameStrings}

call_name_similarity ==
    /\ call.op = "name_similarity"
    /\ ~call.returned
    /\ call' = [call EXCEPT !.returned = TRUE,
                            !.result = name_similarity(call.name1, call.name2)]
    /\ UNCHANGED <<tables, run, person>>

NextNames == call_name_similarity

SpecNames == InitNames /\ [][NextNames]_vars

----------------------------------------------------------------------------
(* SpecMatch: match_names_to_people on the names and years found in a     *)
(* document, and the passes that write what it returned                   *)

\* the people the names are matched to: Ann Lee (1850-1900) and Anna Lee
\* (born 1850-05, no death date)
MatchPeople ==
    {PersonRow(1, <<"A", "N", "N">>, <<"L", "E", "E">>, <<"1", "8", "5", "0">>, <<"1", "9", "0", "0">>, None, 50, "medium"),
     PersonRow(2, <<"A", "N", "N", "A">>, <<"L", "E", "E">>, <<"1", "8", "5", "0", "-", "0", "5">>, <<>>, None, 50, "medium")}

\* a table of seven people whose names are all close to "Ann Lee": more than
\* match_names_to_people returns, not in the order of their scores; and
\* Elizabeth Lee, of whom "Mr Lee" has the surname only
CrowdPeople ==
    {PersonRow(1, <<"A", "N", "N", "A">>, <<"L", "E", "E">>, <<"1", "8", "5", "0">>, None, None, 50, "medium"),
     PersonRow(2, <<"A", "N", "N">>, <<"L", "E", "E">>, <<"1", "8", "5", "0">>, <<"1", "9", "0", "0">>, None, 50, "medium"),
     PersonRow(3, <<"A", "N", "N">>, <<"L", "E", "E">>, None, None, None, 50, "medium"),
     PersonRow(4, <<"A", "N", "N", "E">>, <<"L", "E", "E">>, <<"1", "8", "7", "5">>, None, None, 50, "medium"),
     PersonRow(5, <<"A", "N", "N">>, <<"L", "E", "A">>, <<"1", "9", "0", "0">>, None, None, 50, "medium"),
     PersonRow(6, <<"A", "N", "A">>, <<"L", "E", "E">>, None, None, None, 50, "medium"),
     PersonRow(7, <<"A", "N">>, <<"L", "E", "E">>, None, <<"1", "8", "7", "5">>, None, 50, "medium"),
     PersonRow(8, <<"E", "L", "I", "Z", "A", "B", "E", "T", "H">>, <<"L", "E", "E">>, <<"1", "8", "5", "0">>, <<"1", "9", "0", "0">>, None, 50, "medium")}

\* names a document can hold: "Ann Lee", "Ana Lea", "Mr Lee"
ExtractedNames ==
    {<<"A", "n", "n", " ", "L", "e", "e">>,
     <<"A", "n", "a", " ", "L", "e", "a">>,
     <<"M", "r", " ", "L", "e", "e">>}

\* names_found: up to two of them, in either order
NamesFound ==
    {<<>>} \cup {<<n>> : n \in ExtractedNames}
    \cup {pr \in ExtractedNames \X ExtractedNames : pr[1] # pr[2]}

\* years a document can hold
DocYears == {1850, 1875, 1900}

InitMatch ==
    /\ document = {DocRow(1, "a", "", NULL)}
    /\ document_match = {}
    /\ pending = NoRequest
    /\ last = Last("off", 0, "", <<>>, FALSE, FALSE)
    /\ proposed = <<>>
    /\ run = NoRun
    /\ person \in {MatchPeople, CrowdPeople}
    /\ call \in {[op |-> "match_names_to_people", names_found |-> names,
                  years_in_doc |-> years, threshold |-> threshold,
                  returned |-> FALSE, result |-> <<>>] :
                     names \in NamesFound, years \in SUBSET DocYears,
                     threshold \in {NAME_MATCH_THRESHOLD, FILENAME_MATCH_THRESHOLD}}

call_match_names_to_people ==
    /\ call.op = "match_names_to_people"
    /\ ~call.returned
    /\ call' = [call EXCEPT
                   !.returned = TRUE,
                   !.result = match_names_to_people(call.names_found, load_people(person),
                                                    call.years_in_doc, call.threshold)]
    /\ UNCHANGED <<tables, run, person>>

\* match_names_to_people has returned for a call with this threshold
Returned(threshold) ==
    call.op = "match_names_to_people" /\ call.returned /\ call.threshold = threshold

NextMatch ==
    \/ call_match_names_to_people
    \/ \E fp \in Files, rescan \in BOOLEAN :
            /\ Returned(FILENAME_MATCH_THRESHOLD)
            /\ scan_filenames(fp, rescan, call.result)
    \/ \E doc \in document, rescan \in BOOLEAN :
            /\ Returned(NAME_MATCH_THRESHOLD)
            /\ scan_ocr(doc, rescan, TRUE, call.result)
    \/ \E doc \in document, rescan \in BOOLEAN :
            /\ Returned(NAME_MATCH_THRESHOLD)
            /\ scan_vision(doc, rescan, TRUE, call.result)
    \/ \E doc \in document, ms \in LoopMatchLists : vision_loop(doc, TRUE, ms)

SpecMatch == InitMatch /\ [][NextMatch]_vars

----------------------------------------------------------------------------
(* SpecDup: the duplicates section of generate_research.py over a person *)
(* table, after the edits of the admin page                              *)

\* what a person row can hold: given name, surname, birth date, birth place
Profiles ==
    {<<<<"A", "n", "n">>, <<"L", "e", "e">>, <<"1", "8", "5", "0">>, <<"O", "h", "i", "o">>>>,
     <<<<"A", "n", "n", "e">>, <<"L", "e", "e">>, <<"a", "b", "t", " ", "1", "8", "5", "1">>, <<"o", "h", "i", "o", " ", "U", "S">>>>,
     <<<<"a", "n", "n">>, <<"l", "e", "e">>, <<"1", "8", "5", "1">>, None>>,
     <<<<"A", "n", "n", "e">>, <<"L", "e", "e">>, None, <<"O", "h", "i", "o">>>>,
     <<<<"A", "n", "a">>, <<"L", "e", "e">>, None, None>>,
     <<<<"A", "n", "n", "a">>, <<"L", "e", "e">>, <<"1", "8", "5", "2">>, None>>,
     <<<<"A", "n", "n", "a">>, <<"L", "e", "e">>, <<"1", "8", "5", "6">>, None>>,
     <<None, <<"L", "e", "e">>, <<"1", "8", "5", "0">>, None>>,
     <<<<"A", "n", "n">>, <<"L", "e", "i", "g", "h">>, <<"1", "8", "5", "0">>, None>>}

\* the tables of MaxPersons persons
SmallTables ==
    {{PersonRow(i, f[i][1], f[i][2], f[i][3], None, f[i][4], 50, "medium") :
          i \in 1..MaxPersons} : f \in [1..MaxPersons -> Profiles]}

\* fifteen persons of one block with given names that all differ (Anaa,
\* Anea, ...), no dates and no places: 105 pairs of the same score
BlockTable ==
    LET vowels == <<"a", "e", "i", "o">>
        given(i) == <<"A", "n", vowels[(i % 4) + 1], vowels[(i \div 4) + 1]>>
    IN  {PersonRow(i, given(i), <<"L", "e", "e">>, None, None, None, 50, "medium") : i \in 1..15}

\* the orders fetchall can give the rows in: every order of a small table,
\* the order of the ids and its reverse for a large one
RowOrders(tbl) ==
    IF Cardinality(tbl) <= MaxPersons
    THEN {f \in [1..Cardinality(tbl) -> tbl] : \A p \in tbl : \E i \in DOMAIN f : f[i] = p}
    ELSE LET rows == load_people(tbl)
         IN  {rows, [i \in 1..Len(rows) |-> rows[Len(rows) + 1 - i]]}

InitDup ==
    /\ document = {}
    /\ document_match = {}
    /\ pending = NoRequest
    /\ last = Last("off", 0, "", <<>>, FALSE, FALSE)
    /\ proposed = <<>>
    /\ run = NoRun
    /\ person \in SmallTables \cup {BlockTable}
    /\ call = [op |-> "duplicates", returned |-> FALSE, edits |-> 0, result |-> <<>>]

\* api_admin_update_person with body {field: value}, before the report runs
api_admin_update_person(person_id, field, value) ==
    /\ call.op = "duplicates"
    /\ ~call.returned
    /\ call.edits < MaxEdits
    /\ \E old \in person :
          /\ old.id = person_id
          /\ value # old[field]
          /\ person' = (person \ {old}) \cup {[old EXCEPT ![field] = value]}
    /\ call' = [call EXCEPT !.edits = call.edits + 1]
    /\ UNCHANGED <<tables, run>>

\* python generate_research.py, up to and with the duplicates section
generate_research(people) ==
    /\ call.op = "duplicates"
    /\ ~call.returned
    /\ call' = [call EXCEPT !.returned = TRUE, !.result = duplicates(people)]
    /\ UNCHANGED <<tables, run, person>>

NextDup ==
    \/ \E p \in person, field \in {"given_name", "surname"}, value \in {<<>>} :
            /\ Cardinality(person) <= MaxPersons
            /\ api_admin_update_person(p.id, field, value)
    \/ \E people \in RowOrders(SelectPeople(person)) : generate_research(people)

SpecDup == InitDup /\ [][NextDup]_vars

----------------------------------------------------------------------------
(* SpecBoost: scan_documents.py --boost, run again and again over the    *)
(* same document_match rows                                                *)

\* SUM(CASE WHEN verified = 1 THEN 5 ELSE 2 END) ... GROUP BY person_id
Bonus(tbl, pid) ==
    VERIFIED_BONUS * Cardinality({r \in tbl : r.person_id = pid /\ r.verified = 1})
    + UNVERIFIED_BONUS * Cardinality({r \in tbl : r.person_id = pid /\ r.verified # 1})

\* the bonus without its cap
CappedBonusNone(bonus) == bonus

\* capped_bonus = min(bonus, 15)
capped_bonus(bonus) == Min2(bonus, BONUS_CAP)

\* the new score without its clamp
NewScoreUnclamped(current, bonus) == current + bonus

\* new_score = min(current[0] + capped_bonus, 100)
new_score(current, bonus) == Min2(current + bonus, CONFIDENCE_MAX)

\* the tier of a score
Tier(score) ==
    IF score >= 80 THEN "high"
    ELSE IF score >= 50 THEN "medium"
    ELSE IF score >= 20 THEN "low"
    ELSE "speculative"

\* the UPDATE without WHERE id = ?: every row gets the score of the last
\* person of doc_scores
BoostedNoWhere(people, tbl) ==
    LET found == {p \in people : \E r \in tbl : r.person_id = p.id}
        p == CHOOSE x \in found : \A y \in found : y.id <= x.id
        score == new_score(p.confidence, capped_bonus(Bonus(tbl, p.id)))
    IN  IF found = {} THEN people
        ELSE {[q EXCEPT !.confidence = score, !.confidence_tier = Tier(score)] : q \in people}

\* the person table after the loop over doc_scores: a person without a
\* document_match row is not in doc_scores, a person_id without a person
\* row is passed over (if current:)
Boosted(people, tbl) ==
    {IF \E r \in tbl : r.person_id = p.id
     THEN LET score == new_score(p.confidence, capped_bonus(Bonus(tbl, p.id)))
          IN  [p EXCEPT !.confidence = score, !.confidence_tier = Tier(score)]
     ELSE p : p \in people}

\* the scores a person record holds before the first boost
Confidences == 0..100

\* the tables a boost starts from. Person 1 has any score, with the tier
\* derived from it, and verified and unverified rows on documents 1..5 that
\* give the bonus 2, 5, 9, 15, or 22 before the cap; of the others there is
\* no row, one row of person 2, or one row of a person the table does not
\* hold
InitBoost ==
    LET BoostPerson(i, conf) ==
            PersonRow(i, <<"A", "n", "n">>, <<"L", "e", "e">>, None, None, None,
                      conf, Tier(conf))
        MatchRows(pid, verified, unverified) ==
            {Row(10 * pid + d, d, pid, "ocr_auto", 8000, "", IF d <= verified THEN 1 ELSE 0) :
                 d \in 1..(verified + unverified)}
        RowCounts == {<<0, 1>>, <<1, 0>>, <<1, 2>>, <<3, 0>>, <<4, 1>>}
        OtherRows == {{}, MatchRows(2, 1, 0), MatchRows(3, 0, 1)}
    IN  /\ document = {DocRow(d, <<"a", "b", "c", "d", "e">>[d], "", NULL) : d \in 1..5}
        /\ \E n \in RowCounts, others \in OtherRows :
              document_match = MatchRows(1, n[1], n[2]) \cup others
        /\ pending = NoRequest
        /\ last = Last("off", 0, "", <<>>, FALSE, FALSE)
        /\ proposed = <<>>
        /\ run = NoRun
        /\ \E conf \in Confidences : person = {BoostPerson(1, conf), BoostPerson(2, 50)}
        /\ call = [op |-> "boost_confidence", runs |-> 0, initial |-> person,
                   previous |-> person]

\* python scan_documents.py --boost; call.runs counts the runs, call.initial
\* and call.previous keep the person table of the start and of before the
\* last run
boost_confidence ==
    /\ call.op = "boost_confidence"
    /\ call.runs < MaxRuns
    /\ person' = (IF document_match = {} THEN person ELSE Boosted(person, document_match))
    /\ call' = [call EXCEPT !.runs = call.runs + 1, !.previous = person]
    /\ UNCHANGED <<tables, run>>

NextBoost == boost_confidence

SpecBoost == InitBoost /\ [][NextBoost]_vars

\* the runs go on: each is started again and ends
SpecBoostFair == SpecBoost /\ WF_vars(NextBoost)

----------------------------------------------------------------------------
(* SpecSoundex: soundex on a name *)

\* the names of up to MaxNameLen of the letters b, p (one class), l and a
InitSoundex ==
    /\ document = {}
    /\ document_match = {}
    /\ pending = NoRequest
    /\ last = Last("off", 0, "", <<>>, FALSE, FALSE)
    /\ proposed = <<>>
    /\ run = NoRun
    /\ person = PersonTable
    /\ call \in {[op |-> "soundex", name |-> name, returned |-> FALSE, result |-> <<>>] :
                     name \in UNION {[1..k -> {"b", "p", "l", "a"}] : k \in 1..MaxNameLen}}

call_soundex ==
    /\ call.op = "soundex"
    /\ ~call.returned
    /\ call' = [call EXCEPT !.returned = TRUE, !.result = soundex(call.name)]
    /\ UNCHANGED <<tables, run, person>>

NextSoundex == call_soundex

SpecSoundex == InitSoundex /\ [][NextSoundex]_vars

----------------------------------------------------------------------------
(* SpecFrame: the programs that read the person table, one after another   *)
(* over the same tables: the matching passes, the duplicates report and    *)
(* boost_confidence                                                        *)

InitFrame ==
    \/ InitMatch
    \/ /\ document = {DocRow(1, "a", "", NULL)}
       /\ document_match = {}
       /\ pending = NoRequest
       /\ last = Last("off", 0, "", <<>>, FALSE, FALSE)
       /\ proposed = <<>>
       /\ run = NoRun
       /\ person = MatchPeople
       /\ call \in {[op |-> "duplicates", returned |-> FALSE, edits |-> 0, result |-> <<>>],
                    [op |-> "boost_confidence", runs |-> 0, initial |-> person,
                     previous |-> person]}

NextFrame ==
    \/ NextMatch
    \/ \E people \in RowOrders(SelectPeople(person)) : generate_research(people)
    \/ boost_confidence

SpecFrame == InitFrame /\ [][NextFrame]_vars

----------------------------------------------------------------------------
(* Properties of the reconcile step *)

AutoOps == {"scan_filenames", "scan_ocr", "scan_vision", "vision_loop"}

\* the matches the last operation proposed
Proposals(l) == {l.ms[i] : i \in 1..Len(l.ms)}

\* row r belongs to the document the step from doc to doc2 worked on under id
\* d: it carries that id, or the id the same file had before the step
OfDocument(r, d, doc, doc2) ==
    \/ r.document_id = d
    \/ \E x \in doc, y \in doc2 :
           x.id = r.document_id /\ y.id = d /\ x.filepath = y.filepath

IsManual(r) == r.match_type = "manual" /\ r.confidence = ONE /\ r.verified = 1

\* C1: a pass that proposes a confidence lower than the one stored on an
\* unverified row of the same document and person leaves that row exactly
\* as it was
C1_Monotone ==
    [][last'.op \in AutoOps =>
          \A r \in document_match, m \in Proposals(last') :
              (/\ r.verified = 0
               /\ r.person_id = m.pid
               /\ OfDocument(r, last'.doc, document, document')
               /\ m.conf < r.confidence)
              => r \in document_match']_vars

\* a pass has proposed less than what the unverified row of the pair holds
C1_Witness ==
    /\ last.op \in AutoOps
    /\ \E r \in document_match, m \in Proposals(last) :
           /\ r.document_id = last.doc /\ r.person_id = m.pid
           /\ r.verified = 0
           /\ m.conf < r.confidence /\ Round3(m.conf) < r.confidence

\* C2: document_match never holds two rows with the same document_id and
\* person_id, whatever passes and manual link requests have run
C2_OneRowPerPair ==
    \A r1, r2 \in document_match :
        (r1.document_id = r2.document_id /\ r1.person_id = r2.person_id) => r1 = r2

\* a manual link request has read that its pair has no row, and a pass has
\* inserted the pair's row before the request writes
C2_Witness ==
    /\ pending # NoRequest /\ pending.existing = 0
    /\ Existing(document_match, pending.doc, pending.pid) # {}

\* C3: no pass changes a manual link (match_type manual, confidence 1.0,
\* verified 1); the row stays as it is through every pass
C3_ManualKept ==
    [][last'.op \in AutoOps =>
          \A r \in document_match : IsManual(r) => r \in document_match']_vars

\* scan_vision has proposed its highest confidence for a pair that holds a
\* manual link
C3_Witness ==
    /\ last.op = "scan_vision"
    /\ \E r \in document_match, m \in Proposals(last) :
           /\ IsManual(r)
           /\ r.document_id = last.doc /\ r.person_id = m.pid
           /\ m.conf = ONE

\* C4: a pass keeps every row of document_match under its id and pair and
\* never clears verified; a row leaves the table only in a human rejection
C4_NoAutoDelete ==
    [][/\ last'.op \in AutoOps =>
              \A r \in document_match : \E r2 \in document_match' :
                  /\ r2.id = r.id
                  /\ r2.document_id = r.document_id /\ r2.person_id = r.person_id
                  /\ r.verified = 1 => r2.verified = 1
       /\ (\E r \in document_match : \A r2 \in document_match' : r2.id # r.id)
              => \/ last'.op = "review_matches"
                 \/ last'.op = "api_verify_match" /\ last'.arg = "reject"]_vars

\* a pass has raised the confidence of a verified row
C4_Witness ==
    /\ last.op \in {"scan_ocr", "scan_vision", "vision_loop"}
    /\ \E r \in document_match, m \in Proposals(last) :
           /\ r.document_id = last.doc /\ r.person_id = m.pid
           /\ r.verified = 1
           /\ r.match_type # "manual"
           /\ r.confidence = Round3(m.conf) /\ r.snippet = m.snippet

\* the row of (file, person) that the application shows: the one joined to
\* the file's document row
LiveRows(fp, p) ==
    {r \in document_match :
        r.person_id = p /\ \E d \in document : d.id = r.document_id /\ d.filepath = fp}

\* C5: for a file and person no human operation has touched, the stored
\* confidence is the highest one the passes have proposed, in whatever
\* order the passes ran
C5_MaxProposed ==
    \A k \in DOMAIN proposed :
        proposed[k] > 0 =>
            \E r \in LiveRows(k[1], k[2]) : r.confidence = proposed[k]

\* C6: a reconciling pass applied a second time to the same document with
\* the same proposals changes nothing: one row for the pair, the same in
\* match_type, confidence, snippet and verified
C6_Idempotent ==
    [][(last'.op \in {"scan_ocr", "scan_vision", "vision_loop"} /\ last'.again) =>
          /\ document_match' = document_match
          /\ \A m \in Proposals(last') :
                 Cardinality(Existing(document_match', last'.doc, m.pid)) = 1]_vars

\* a reconciling pass has run twice in a row on one document with the same
\* non-empty proposals
C6_Witness ==
    /\ last.op \in {"scan_ocr", "scan_vision"}
    /\ last.again
    /\ last.ms # <<>>
    /\ \E r \in document_match : r.document_id = last.doc

Max2(a, b) == IF a >= b THEN a ELSE b

\* C7: reconciling a proposal against a pair that already has a row never
\* raises a uniqueness error, and leaves the row with the larger of the old
\* confidence and the proposed one (as stored)
C7_NoUniquenessError ==
    [][last'.op \in AutoOps =>
          /\ ~last'.raised
          /\ \A m \in Proposals(last') :
                 \A r \in Existing(document_match, last'.doc, m.pid) :
                     \E r2 \in Existing(document_match', last'.doc, m.pid) :
                         r2.confidence = Max2(r.confidence, Round3(m.conf))]_vars

\* vision_loop has proposed for a pair whose row another operation wrote
C7_Witness ==
    /\ last.op = "vision_loop"
    /\ ~last.raised
    /\ \E r \in document_match, m \in Proposals(last) :
           /\ r.document_id = last.doc /\ r.person_id = m.pid
           /\ r.match_type # "vision_auto"

----------------------------------------------------------------------------
(* Properties of the batch loops *)

\* the step is an iteration whose external call raised
Failed ==
    \/ run.pass \in ScanPasses /\ run.pc = "loop" /\ run'.i = run.i + 1 /\ run'.outcome = "fail"
    \/ run.pass = "vision_loop" /\ run.pc = "call" /\ run'.pc # "call" /\ run'.outcome = "fail"

\* the step stores nothing
NothingStored ==
    /\ run'.uncommitted <= run.uncommitted
    /\ run'.batch_analyzed = run.batch_analyzed
    /\ run'.remaining = run.remaining
    /\ run'.unexported = run.unexported

C9_AtMostNUncommitted ==
    run.pass # "none" => run.uncommitted <= CommitEvery(run.pass)

Terminated == run.pc \in {"done", "returned"}

\* C10: once a signal has set stop_requested while a batch is at work, no
\* further vision call is started, and when the program has ended the
\* batch's writes are committed and export_and_push has run since the signal
C10_StopThenExport ==
    /\ ~run.started_after_stop
    /\ (Terminated /\ run.stop_at \in {"for", "call", "commit"}) =>
           run.uncommitted = 0 /\ run.exported_after_stop

\* the signal arrived during a vision call, the image was stored, and the
\* program has ended after export_and_push
C10_Witness ==
    /\ run.pc = "done"
    /\ run.stop_at = "call"
    /\ run.batch_analyzed > 0
    /\ run.ended = "stop"
    /\ run.exported_after_stop

----------------------------------------------------------------------------
(* Properties of the similarity scorer *)

\* the confidences between threshold and 1.0
InRange(conf, threshold) == threshold <= conf /\ conf <= ONE

\* C11: every match match_names_to_people returns has threshold <= confidence
\* <= 1.0, and every confidence an automatic pass has written lies between
\* that pass's threshold (0.82 for filename rows, 0.78 for OCR and vision
\* rows) and 1.0.
C11_ConfidenceInRange ==
    /\ (call.op = "match_names_to_people" /\ call.returned)
          => \A i \in 1..Len(call.result) : InRange(call.result[i].conf, call.threshold)
    /\ \A r \in document_match :
          /\ r.match_type = "filename" => InRange(r.confidence, FILENAME_MATCH_THRESHOLD)
          /\ r.match_type \in {"ocr_auto", "vision_auto"}
                => InRange(r.confidence, NAME_MATCH_THRESHOLD)

\* a call whose best score and year boost pass 1.0 has returned a match, and
\* a pass has written a row from a call's matches
C11_Witness ==
    /\ call.op = "match_names_to_people"
    /\ call.returned
    /\ \E p \in person :
          /\ BestMatch(p, [score |-> 0, snippet |-> <<>>], call.names_found).score
                 + year_boost(p, call.years_in_doc) > ONE
          /\ \E i \in 1..Len(call.result) : call.result[i].pid = p.id
    /\ \E r \in document_match : r.person_id = 2 /\ r.match_type \in {"filename", "ocr_auto"}

\* the birth year and the death year of person p, where the date has one
YearsOf(p) ==
    {y \in {extract_year_from_str(p.birth_date), extract_year_from_str(p.death_date)} :
        TruthyInt(y)}

\* C12: for the names and the person of a call, adding the person's birth
\* year or death year to the document's years never lowers the final score.
C12_YearNeverLowers ==
    call.op = "match_names_to_people"
        => \A p \in person : \A y \in YearsOf(p) :
               PersonScore(p, call.names_found, call.years_in_doc \cup {y}).score
                   >= PersonScore(p, call.names_found, call.years_in_doc).score

\* a call has returned a person that an added year puts above the threshold
\* or raises
C12_Witness ==
    /\ call.op = "match_names_to_people"
    /\ call.returned
    /\ \E p \in person : \E y \in YearsOf(p) :
          /\ y \notin call.years_in_doc
          /\ call.years_in_doc # {}
          /\ PersonScore(p, call.names_found, call.years_in_doc \cup {y}).score
                 > PersonScore(p, call.names_found, call.years_in_doc).score
          /\ PersonScore(p, call.names_found, call.years_in_doc).score >= call.threshold

\* C13: name_similarity is symmetric: the value returned for (name1, name2)
\* is the value of name_similarity(name2, name1).
C13_Symmetric ==
    (call.op = "name_similarity" /\ call.returned)
        => call.result = name_similarity(call.name2, call.name1)

\* a call has returned for two strings that differ after lower() and strip()
C13_Witness ==
    /\ call.op = "name_similarity"
    /\ call.returned
    /\ Strip(Lower(call.name1)) # Strip(Lower(call.name2))
    /\ call.result > 0

----------------------------------------------------------------------------
(* Properties of the duplicate detector *)

\* the report has run
Reported == call.op = "duplicates" /\ call.returned

\* the emitted candidates and the two person rows of each
Emitted == {call.result[i] : i \in 1..Len(call.result)}

PersonOf(i) == CHOOSE p \in person : p.id = i

PairIds(ds) == {{ds[i].person1, ds[i].person2} : i \in 1..Len(ds)}

\* C14: every emitted pair passes the birth-year gate as specified: both
\* birth years are undetermined, or both are known and differ by at most 5.
C14_BirthYearGate ==
    Reported =>
        \A d \in Emitted :
            LET y1 == yr(PersonOf(d.person1).birth_date)
                y2 == yr(PersonOf(d.person2).birth_date)
            IN  \/ y1 = NoYear /\ y2 = NoYear
                \/ y1 # NoYear /\ y2 # NoYear /\ Abs(y1 - y2) <= 5

\* C15: a person whose surname or given name is missing (NULL or empty) is
\* in no emitted pair.
C15_MissingNamesExcluded ==
    Reported =>
        \A d \in Emitted : \A i \in {d.person1, d.person2} :
            TruthyStr(PersonOf(i).surname) /\ TruthyStr(PersonOf(i).given_name)

\* C16: the unordered pairs of the output, after the sort and the cap, are
\* the same for every order of the person rows: they are the pairs the
\* report gives for the rows in the order of their ids.
C16_OrderIndependent ==
    Reported => PairIds(call.result) = PairIds(duplicates(load_people(SelectPeople(person))))

\* the score as the claim words it
C17_Score(p1, p2) ==
    LET y1 == yr(p1.birth_date)
        y2 == yr(p2.birth_date)
        known == y1 \notin {NoYear, 0} /\ y2 \notin {NoYear, 0}
        place1 == Lower(OrEmpty(p1.birth_place))
        place2 == Lower(OrEmpty(p2.birth_place))
    IN  (IF known /\ y1 = y2 THEN 3 ELSE IF known /\ Abs(y1 - y2) <= 2 THEN 2 ELSE 0)
        + (IF soundex(p1.surname) = soundex(p2.surname) THEN 2 ELSE 0)
        + (IF soundex(p1.given_name) = soundex(p2.given_name) THEN 2 ELSE 0)
        + (IF place1 # <<>> /\ place2 # <<>>
              /\ (Contains(place1, place2) \/ Contains(place2, place1))
           THEN 2 ELSE 0)

\* two rows of one block with birth years one apart and no birth place that
\* contains the other
OneYearApart(p1, p2) ==
    /\ p1.id # p2.id
    /\ BlockKey(p1) = BlockKey(p2)
    /\ yr(p1.birth_date) \notin {NoYear, 0}
    /\ yr(p2.birth_date) \notin {NoYear, 0}
    /\ Abs(yr(p1.birth_date) - yr(p2.birth_date)) = 1
    /\ C17_Score(p1, p2) = 6

EmittedWith(p1, p2, least) ==
    \E d \in Emitted : {d.person1, d.person2} = {p1.id, p2.id} /\ d.score >= least

\* C17 as stated: every emitted score is the sum of the four parts, and a
\* pair of one block with birth years one apart and no birth-place overlap
\* is emitted with score >= 4.
C17_ScoreAndEmitted ==
    Reported =>
        /\ \A d \in Emitted : d.score = C17_Score(PersonOf(d.person1), PersonOf(d.person2))
        /\ \A p1, p2 \in SelectPeople(person) :
               OneYearApart(p1, p2) => EmittedWith(p1, p2, 4)

\* C17 as amended: every emitted score is the sum of the four parts, and a
\* pair of one block with birth years one apart and no birth-place overlap,
\* whose given names or surnames differ ignoring case, is emitted with score
\* >= 4 unless the output is full (100 entries).
C17_ScoreAndEmittedUnlessExact ==
    Reported =>
        /\ \A d \in Emitted : d.score = C17_Score(PersonOf(d.person1), PersonOf(d.person2))
        /\ \A p1, p2 \in SelectPeople(person) :
               (/\ OneYearApart(p1, p2)
                /\ \/ Lower(p1.given_name) # Lower(p2.given_name)
                   \/ Lower(p1.surname) # Lower(p2.surname))
                   => EmittedWith(p1, p2, 4) \/ Len(call.result) = DUPLICATES_CAP

\* the report has emitted a pair with birth years one apart, whose names
\* differ, with score 6
C17_Witness ==
    /\ Reported
    /\ \E p1, p2 \in SelectPeople(person) :
          /\ OneYearApart(p1, p2)
          /\ Lower(p1.given_name) # Lower(p2.given_name)
          /\ EmittedWith(p1, p2, 6)

\* C18: no emitted pair has given names and surnames that are both equal
\* ignoring case.
C18_NoExactDuplicates ==
    Reported =>
        \A d \in Emitted :
            ~(/\ Lower(PersonOf(d.person1).given_name) = Lower(PersonOf(d.person2).given_name)
              /\ Lower(PersonOf(d.person1).surname) = Lower(PersonOf(d.person2).surname))

\* the report has run over a table where two rows of one block differ in
\* case only, and has emitted another pair
C18_Witness ==
    /\ Reported
    /\ \E p1, p2 \in SelectPeople(person) :
          /\ p1.id # p2.id
          /\ p1.given_name # p2.given_name
          /\ Lower(p1.given_name) = Lower(p2.given_name)
          /\ Lower(p1.surname) = Lower(p2.surname)
          /\ BlockKey(p1) = BlockKey(p2)
          /\ {p1.id, p2.id} \notin PairIds(call.result)

----------------------------------------------------------------------------
(* Properties of the confidence aggregator *)

\* the persons with at least one document_match row
WithRows == {p \in person : \E r \in document_match : r.person_id = p.id}

\* min(5*verified_rows + 2*unverified_rows, 15) of a person
C19_Bonus(p) ==
    LET verified_rows == Cardinality({r \in document_match : r.person_id = p.id /\ r.verified = 1})
        unverified_rows == Cardinality({r \in document_match : r.person_id = p.id /\ r.verified = 0})
        sum == 5 * verified_rows + 2 * unverified_rows
    IN  IF sum < 15 THEN sum ELSE 15

ConfidenceIn(tbl, p) == (CHOOSE q \in tbl : q.id = p.id).confidence

\* C19: after a boost_confidence run every person with a document_match row
\* has confidence min(previous + min(5*verified + 2*unverified, 15), 100),
\* the confidence lies in [0, 100], and the tier is the one the breakpoints
\* give for it.
C19_BoostedOnce ==
    (call.op = "boost_confidence" /\ call.runs >= 1) =>
        \A p \in WithRows :
            LET sum == ConfidenceIn(call.previous, p) + C19_Bonus(p)
            IN  /\ p.confidence = (IF sum < 100 THEN sum ELSE 100)
                /\ p.confidence \in 0..100
                /\ p.confidence >= 80 => p.confidence_tier = "high"
                /\ p.confidence \in 50..79 => p.confidence_tier = "medium"
                /\ p.confidence \in 20..49 => p.confidence_tier = "low"
                /\ p.confidence < 20 => p.confidence_tier = "speculative"

\* one run has capped the bonus of a person with four verified rows and one
\* unverified row, and has moved the person to another tier
C19_Witness ==
    /\ call.op = "boost_confidence"
    /\ call.runs = 1
    /\ \E p \in WithRows :
          /\ Bonus(document_match, p.id) = 22
          /\ p.confidence = ConfidenceIn(call.previous, p) + 15
          /\ p.confidence_tier = "medium"
          /\ \E q \in call.previous : q.id = p.id /\ q.confidence_tier = "low"

----------------------------------------------------------------------------
(* Properties of the person table *)

\* this step is a run of boost_confidence
BoostStep == call.op = "boost_confidence" /\ call'.runs # call.runs

\* C21: a step of a matching pass or of the duplicates report leaves the
\* person table as it is; a run of boost_confidence keeps the rows and changes
\* nothing but confidence and confidence_tier, and those only of persons with
\* a document_match row.
C21_PersonFrame ==
    [][IF BoostStep
       THEN /\ {p.id : p \in person'} = {p.id : p \in person}
            /\ Cardinality(person') = Cardinality(person)
            /\ \A p \in person : \A q \in person' :
                  q.id = p.id =>
                      /\ [q EXCEPT !.confidence = p.confidence,
                                   !.confidence_tier = p.confidence_tier] = p
                      /\ q # p => \E r \in document_match : r.person_id = p.id
       ELSE person' = person]_vars

\* boost_confidence has raised a person whose row a pass has written, next
\* to a person without a row
C21_Witness ==
    /\ call.op = "boost_confidence"
    /\ call.runs >= 1
    /\ person # call.initial
    /\ \E r \in document_match : r.match_type = "vision_auto"
    /\ \E p \in person : ~\E r \in document_match : r.person_id = p.id

----------------------------------------------------------------------------
(* Properties of the loop of vision_loop *)

\* this step is a failed vision call after which the restart of Ollama is
\* attempted: it succeeds and the count of errors starts again, or it fails
\* and main returns
RestartStep ==
    /\ run.pass = "vision_loop"
    /\ run.pc = "call"
    /\ run'.outcome = "fail"
    /\ run'.batch_errors = 0 \/ run'.pc = "returned"

\* C22: the restart is attempted only when the last three or more vision
\* calls of the batch have all failed and no document of the batch has been
\* analyzed.
C22_RestartAfterThreeInARow ==
    [][RestartStep => run'.failed_in_a_row >= 3 /\ run'.batch_analyzed = 0]_vars

\* a restart has been attempted after a call that did not fail
C22_Witness ==
    /\ run.pass = "vision_loop"
    /\ run.outcome = "fail"
    /\ run.pc = "returned" \/ (run.pc = "for" /\ run.batch_errors = 0)
    /\ run.failed_in_a_row < 3

----------------------------------------------------------------------------
(* Properties of what match_names_to_people returns *)

\* match_names_to_people has returned
Matched == call.op = "match_names_to_people" /\ call.returned

\* the persons with a name of three characters or more whose final score is
\* at or above the threshold of the call, and are not in the result
LeftOut ==
    {p \in person :
        /\ Len(full_name(p)) >= 3
        /\ PersonScore(p, call.names_found, call.years_in_doc).score >= call.threshold
        /\ \A i \in 1..Len(call.result) : call.result[i].pid # p.id}

\* C23: match_names_to_people returns at most 5 matches, in non-increasing
\* order of confidence, each person at most once, and no person the cap has
\* left out has a final score above that of a returned one.
C23_TopFive ==
    Matched =>
        /\ Len(call.result) <= 5
        /\ \A i, j \in 1..Len(call.result) :
              i < j => /\ call.result[i].conf >= call.result[j].conf
                       /\ call.result[i].pid # call.result[j].pid
        /\ \A p \in LeftOut : \A i \in 1..Len(call.result) :
              call.result[i].conf
                  >= PersonScore(p, call.names_found, call.years_in_doc).score

\* a call has returned five matches of different scores and left persons out
C23_Witness ==
    /\ Matched
    /\ Len(call.result) = 5
    /\ call.result[1].conf > call.result[5].conf
    /\ Cardinality(LeftOut) >= 2

----------------------------------------------------------------------------
(* Properties of soundex *)

\* the code as the claim words it: the first letter, then the digit of every
\* later letter that has a class other than that of the letter right before
\* it, padded with 0 and cut to four characters
C24_Code(name) ==
    LET up == Upper(name)
        Emits(i) == SoundexCode(up[i]) # "" /\ SoundexCode(up[i - 1]) # SoundexCode(up[i])
        digits == [i \in 1..(Len(up) - 1) |-> IF Emits(i + 1) THEN <<SoundexCode(up[i + 1])>>
                                                ELSE <<>>]
        Flat[i \in 0..(Len(up) - 1)] == IF i = 0 THEN <<>> ELSE Flat[i - 1] \o digits[i]
    IN  SubSeq(<<up[1]>> \o Flat[Len(up) - 1] \o <<"0", "0", "0">>, 1, 4)

\* C24: soundex of a non-empty name is four characters: the first letter and
\* the digits of the later letters, a letter giving its digit exactly when it
\* has a class and the letter right before it is not of that class; padded
\* with 0 or cut to four.
C24_Soundex ==
    (call.op = "soundex" /\ call.returned) =>
        Len(call.result) = 4 /\ call.result = C24_Code(call.name)

\* soundex has returned for a name where a vowel stands between two letters
\* of one class
C24_Witness ==
    /\ call.op = "soundex"
    /\ call.returned
    /\ call.name = <<"b", "a", "p">>
    /\ call.result = <<"B", "0", "0", "0">>

----------------------------------------------------------------------------
(* Properties of the stored confidence *)

\* C25: when scan_ocr, scan_vision or vision_loop updates a row that exists,
\* changing its match_type or its snippet, the confidence stored after the
\* update is strictly greater than the one stored before.
C25_UpdateRaises ==
    [][last'.op \in {"scan_ocr", "scan_vision", "vision_loop"} =>
          \A r \in document_match, r2 \in document_match' :
              (/\ r2.id = r.id
               /\ r2.document_id = r.document_id
               /\ r2.person_id = r.person_id
               /\ r2.match_type # r.match_type \/ r2.snippet # r.snippet)
              => r2.confidence > r.confidence]_vars

\* a pass has proposed more than the row of the pair holds, by less than the
\* rounding keeps, and the row carries the pass's match_type
C25_Witness ==
    /\ last.op \in {"scan_ocr", "scan_vision"}
    /\ \E r \in document_match, m \in Proposals(last) :
           /\ r.document_id = last.doc /\ r.person_id = m.pid
           /\ m.conf > r.confidence
           /\ Round3(m.conf) = r.confidence
           /\ r.match_type \in {"ocr_auto", "vision_auto"}

----------------------------------------------------------------------------
(* Properties of the document table *)

\* C26: the document_id of every document_match row is the id of a document
\* row.
C26_DocumentExists ==
    \A r \in document_match : \E d \in document : d.id = r.document_id

\* C27: scan_filenames, with or without --rescan, leaves the ocr_text and the
\* vision_text of every document it already knows as they are.
C27_TextsKept ==
    [][last'.op = "scan_filenames" =>
          \A d \in document : \E d2 \in document' :
              /\ d2.filepath = d.filepath
              /\ d2.ocr_text = d.ocr_text
              /\ d2.vision_text = d.vision_text]_vars

\* scan_filenames has run again over a file whose matches were stored
C27_Witness ==
    /\ last.op = "scan_filenames"
    /\ \E d \in document : d.id > 1 /\ d.ocr_text = "" /\ d.vision_text = NULL
    /\ \E r \in document_match : r.match_type # "filename"

----------------------------------------------------------------------------
(* Properties of the manual link next to a running pass *)

\* a manual link has been asked for a pair without a row, a pass has written
\* the pair's row, and the request has ended
C28_Witness ==
    /\ pending = NoRequest
    /\ \E r \in document_match, d \in document :
           /\ d.filepath = "b"
           /\ r.document_id = d.id
           /\ r.match_type \in {"ocr_auto", "vision_auto"}
           /\ d.ocr_text = "" \/ d.vision_text = NULL

\* C28: whatever a pass has done to the pair between the SELECT and the write
\* of api_add_match, the write raises no uniqueness error and leaves exactly
\* one row for the pair, the manual link.
C28_ManualLinkWins ==
    [][(pending # NoRequest /\ pending' = NoRequest) =>
          /\ ~AddMatchWrite(document_match, pending).raised
          /\ Cardinality(Existing(document_match', pending.doc, pending.pid)) = 1
          /\ \A r \in Existing(document_match', pending.doc, pending.pid) : IsManual(r)]_vars

----------------------------------------------------------------------------
(* Termination of vision_loop *)

\* C29: main of vision_loop terminates: a cycle that is followed by another
\* has stored the vision text of at least one image, so the next cycle
\* selects fewer images than it did; every other cycle ends the loop.
C29_Terminates ==
    /\ (run.pass = "vision_loop") ~> Terminated
    /\ [][(run.pass = "vision_loop" /\ run.pc = "exported" /\ run'.pc = "while") =>
             /\ run.batch_analyzed >= 1
             /\ run'.remaining < run.n]_vars

\* a cycle that met a failed call and stored an image is over, with images
\* left for the next one and no stop signal
C29_Witness ==
    /\ run.pass = "vision_loop"
    /\ run.pc = "while"
    /\ ~run.stop_requested
    /\ run.batch_analyzed >= 1
    /\ run.batch_errors >= 1
    /\ run.remaining >= 1

----------------------------------------------------------------------------
(* Properties of the surname-only signal *)

\* the scores the full name and the components of person p reach on the names
\* found: sim, and given_sim * 0.4 + sur_sim * 0.6 where both are above 0.7
C30_NameScores(p, names_found) ==
    UNION {LET name == names_found[n]
               words == Split(name)
               given == OrEmpty(p.given_name)
               surname == OrEmpty(p.surname)
               given_sim == name_similarity(given, words[1])
               sur_sim == name_similarity(surname, words[Len(words)])
           IN  {name_similarity(full_name(p), name)}
               \cup (IF /\ given # <<>>
                         /\ surname # <<>>
                         /\ Len(words) >= 2
                         /\ given_sim > 7000
                         /\ sur_sim > 7000
                      THEN {(given_sim * 4 + sur_sim * 6) \div 10} ELSE {}) :
           n \in 1..Len(names_found)}

\* C30: with the thresholds 0.78 and 0.82, every person match_names_to_people
\* returns has a full-name or component score of at least 0.58: the
\* surname-only signal, with both year boosts, is not enough.
C30_SurnameOnlyNotEnough ==
    Matched =>
        \A i \in 1..Len(call.result) : \A p \in person :
            p.id = call.result[i].pid =>
                \E score \in C30_NameScores(p, call.names_found) : score >= 5800

\* a call has returned without a person whose surname-only signal had both
\* year boosts
C30_Witness ==
    /\ Matched
    /\ call.result # <<>>
    /\ \E p \in person :
          /\ \A score \in C30_NameScores(p, call.names_found) : score < 5000
          /\ BestMatch(p, [score |-> 0, snippet |-> <<>>], call.names_found).score = 4500
          /\ year_boost(p, call.years_in_doc) = YEAR_BOOST_BIRTH + YEAR_BOOST_DEATH
          /\ \A i \in 1..Len(call.result) : call.result[i].pid # p.id

====
